---- MODULE Spec2Model ----
(***************************************************************************)
(* LakeOS kernel core: thread control blocks (kernel/src/objects/tcb.rs),  *)
(* the round-robin scheduler, the endpoint rendezvous and the fault path.  *)
(* The TCB accessors are translated from tcb.rs; the endpoint, scheduler   *)
(* and capability-space operations that call them follow sections 4.1-4.5  *)
(* of the design specification.                                            *)
(***************************************************************************)
EXTENDS Integers, Sequences, FiniteSets, TLC

\* ------------------------------------------------------------------ bounds
\* The fixed round-robin quantum, in ticks.
Quantum == 2
\* The largest elapsed tick count one timer interrupt reports.
MaxElapsed == 2
\* The timer clock stops being advanced after this many ticks (round-robin runs).
MaxClock == 40
\* Word width used for the time slice arithmetic (usize, scaled down).
WordBits == 3
\* Kernel entries (syscalls, faults, timer interrupts) explored from the initial state.
MaxSteps == 5
\* Capabilities to each endpoint held in user CSpaces at boot.
EpCaps == 2
\* Slots of the CNode the capability operations work on (slot 1 holds the Untyped).
NumSlots == 3
\* The Untyped covers 2^UtBits bytes.
UtBits == 3
\* Largest size_bits and count a retype request carries.
MaxSizeBits == 2
MaxCount == 2
\* log2 of the size of a TCB object, the least size_bits a TCB retype accepts
\* (10 on the machine).
TCB_OBJ_BIT_SZ == 1
\* Levels of intermediate page tables below the page global directory (1..PtLevels).
PtLevels == 3
\* Scaled widths of the page offset (12 bits on the machine), of the ASID (16 bits)
\* and of the physical-address bits above the ASID field.
PageBits == 1
AsidBits == 2
HighBits == 1
\* Scaled widths of a virtual address (48 bits) and of the cpuid field above it (16 bits).
VaBits == 3
CpuBits == 2
\* CPUs of the machine (cpuid() is below NumCpus).
NumCpus == 2
\* Calls of derive_badged_cap explored.
MaxCalls == 4
\* The first badge an Ep hands out.
FirstBadge == 100
\* Scaled width of a notification mask (64 bits on the machine).
NtfBits == 3
\* Registrations (insert_event, remove_event, insert_notification) explored.
MaxRegs == 2

\* ------------------------------------------------------------- universe
TCBS == {"A", "B", "C"}
EPS == {"E1", "E2"}
idle == "idle"
\* Option<T>
None == [some |-> FALSE]
Some(x) == [some |-> TRUE, v |-> x]

\* ThreadState, tcb.rs:17-23
ThreadState == {"Ready", "Sending", "Receiving", "Fault"}

NullCap == [type |-> "Null"]
ReplyCapMint(t) == [type |-> "Reply", tcb |-> t]
EndpointCapMint(e, b) == [type |-> "Endpoint", obj |-> e, badge |-> b]
FrameCapMint(f) == [type |-> "Frame", obj |-> f]
CNodeCapMint(c) == [type |-> "CNode", obj |-> c]
VTableCapMint(p) == [type |-> "VTable", paddr |-> p]
\* Untyped: physical address, size-bits and free watermark (an offset into the region)
UntypedCapMint(p, bits, free) == [type |-> "Untyped", paddr |-> p, bits |-> bits, free |-> free]
TcbCapMint(p) == [type |-> "Tcb", paddr |-> p]
CSlots == 1..NumSlots
\* The threads that call derive_badged_cap on the same Ep.
Callers == {"T1", "T2"}
\* The badges clients send with and the handlers registered with the EpServer.
EvBadges == {FirstBadge, FirstBadge + 1}
Handlers == {"h1", "h2"}
NtfBitsSet == 0..(NtfBits - 1)
\* No spawn call has been made.
NoChild == [kind |-> "none", stdio |-> FALSE, pc |-> "none", loaded |-> FALSE,
            configured |-> FALSE, regs |-> FALSE, copied |-> {}, untyped |-> FALSE,
            resumed |-> FALSE, failed |-> "none", ret |-> "none"]

\* MR0 on the way in: MsgInfo (label, length, #caps); on the way out: RespInfo (error code).
MsgInfo(l, n, k) == [kind |-> "msg", label |-> l, length |-> n, ncaps |-> k]
RespInfo(code) == [kind |-> "resp", code |-> code]

\* The messages a user thread may load into its registers before a send. A message
\* with ncaps = 1 names the thread's source slot, which resolves unless it is Null.
Msgs ==
    { [info |-> MsgInfo(7, 1, 0), mr |-> <<42>>],
      [info |-> MsgInfo(1, 0, 1), mr |-> <<>>] }

\* The messages a server may load before a Reply.
ReplyMsgs ==
    { [info |-> MsgInfo(2, 1, 0), mr |-> <<200>>],
      [info |-> MsgInfo(1, 0, 1), mr |-> <<>>] }

VARIABLES
    state,            \* TcbObj.state
    time_slice,       \* TcbObj.time_slice
    sending_badge_f,  \* TcbObj.sending_badge (the stored field)
    reply_cap_f,      \* TcbObj.reply_cap slot
    fault,            \* TcbObj.fault
    cspace,           \* TcbObj.cspace slot
    vspace,           \* TcbObj.vspace slot
    fault_handler_ep_f, \* TcbObj.fault_handler_ep slot
    tf,               \* TcbObj.tf: MR0 (info), message registers (mr), badge register
    call,             \* whether a thread's pending invocation is a Call (awaits a reply)
    srcslot,          \* the capability in the slot a thread names in its messages
    rcvslot,          \* the capability last installed in a thread's receive slot
    readyQ,           \* the scheduler's ready queue
    epq,              \* each endpoint's wait queue
    current,          \* the activated thread (idle when none)
    ran,              \* ticks the activated thread has run since its activation
    steps,            \* kernel entries taken so far
    clock,            \* timer ticks elapsed (advanced in the round-robin runs only)
    epcaps,           \* number of capabilities to each endpoint in user CSpaces
    dead,             \* the TCB objects that have been deleted
    cnode,            \* the capability in each slot of the CNode
    cparent,          \* derivation tree: the parent slot of each slot, 0 for a root
    vtcap,            \* mapped (vaddr, asid, level) of each VTable capability held by user space
    tables,           \* the intermediate page tables installed in the child's VSpace
    mapped,           \* the page addresses at which a frame is mapped in the child's VSpace
    lpc,              \* the loader's position in ProcessBuilder::spawn
    lva,              \* the page address the loader is mapping
    cur_free,         \* the loader's cur_free, counted from ProcessCSpace::ProcessFixedMax
    pgd,              \* physical address of the page global directory of each VTable capability
    kaddr,            \* address of each TCB object
    cpu,              \* tpidrro_el0, the installed root and ASID, the last TLB invalidation
                      \* and the thread whose TrapFrame was restored
    cur_badge,        \* Ep.cur_badge
    dpc,              \* each caller's position in Ep::derive_badged_cap and the badge it fetched
    got,              \* the badges derive_badged_cap has returned, in the order of return
    event_handlers,   \* EpServer.event_handlers: the handler registered for each badge
    ntf_handler,      \* EpServer.ntf_handler: the handler registered for each notification bit
    locks,            \* the holder of the event_handlers mutex and of the ntf_handler mutex
    spc,              \* the server thread's position in EpServer::run / handle_ipc
    loc,              \* handle_ipc's locals: badge, the mask received, ntf_mask, ntf
    calls,            \* the handler callbacks made by the current handle_ipc, in order
    visited,          \* the notification bits the current handle_ipc has visited, in order
    hist,             \* the registrations made on the EpServer, in order
    child,            \* the thread or process a spawn call is setting up, and spawn's position
    last              \* the last invocation and the value it returned

vars == <<state, time_slice, sending_badge_f, reply_cap_f, fault, cspace, vspace,
          fault_handler_ep_f, tf, call, srcslot, rcvslot, readyQ, epq, current,
          ran, steps, clock, vtcap, last, epcaps, dead, cnode, cparent,
          tables, mapped, lpc, lva, cur_free, pgd, kaddr, cpu,
          cur_badge, dpc, got, event_handlers, ntf_handler, locks, spc, loc, calls,
          visited, hist, child>>

\* Endpoint capabilities and TCB objects in existence.
delvars == <<epcaps, dead>>
\* The CNode and its derivation tree.
cdtvars == <<cnode, cparent>>
\* The kernel objects other than TCBs, endpoint queues and the scheduler.
\* The loader and the VSpace it builds.
ldvars == <<tables, mapped, lpc, lva, cur_free>>
\* Object addresses and the registers activation writes.
hwvars == <<pgd, kaddr, cpu>>
\* The user-level library: the endpoint server, badge allocation and spawn.
srvvars == <<event_handlers, ntf_handler, locks, spc, loc, calls, visited, hist>>
usrvars == <<cur_badge, dpc, got, srvvars, child>>
objvars == <<delvars, cdtvars, ldvars, hwvars, usrvars>>

tcbvars == <<cspace, vspace, fault_handler_ep_f, vtcap>>

\* ------------------------------------------------------------ TCB accessors
Pow2(n) == 2 ^ n
UsizeMod == Pow2(WordBits)

\* TcbObj::state
State_default(t) == "Ready"
State(t) == state[t]

\* TcbObj::set_state: the state map after self.state.set(s)
set_state_noop(st, t, s) == st
set_state(st, t, s) == [st EXCEPT ![t] = s]

\* TcbObj::timeslice
timeslice(t) == time_slice[t]

\* TcbObj::set_timeslice: the time-slice map after self.time_slice.set(ts)
set_timeslice_keep(sl, t, ts) == sl
set_timeslice(sl, t, ts) == [sl EXCEPT ![t] = ts]

\* usize::saturating_sub as called by timeslice_sub
saturating_sub_wrap(cur, t) == (cur - t) % UsizeMod
saturating_sub(cur, t) == IF t > cur THEN 0 ELSE cur - t

\* TcbObj::timeslice_sub: the time-slice map afterwards
timeslice_sub(sl, t, n) == set_timeslice(sl, t, saturating_sub(sl[t], n))

\* TcbObj::sending_badge: Option<usize>, None when the stored badge is 0
sending_badge_raw(b) == Some(b)
sending_badge(b) == IF b = 0 THEN None ELSE Some(b)

\* TcbObj::set_sending_badge
set_sending_badge(sb, t, b) == [sb EXCEPT ![t] = b]

\* TcbObj::set_reply: the reply slots after set_reply(reply) on r
set_reply_keep(rc, r, reply) == rc
set_reply(rc, r, reply) ==
    IF reply = None THEN [rc EXCEPT ![r] = NullCap]
    ELSE [rc EXCEPT ![r] = ReplyCapMint(reply.v)]

\* TcbObj::reply_cap: the waiting TCB of the reply slot, None unless it holds a Reply cap
reply_cap(rc, r) == IF rc[r].type = "Reply" THEN Some(rc[r].tcb) ELSE None

\* TcbObj::fault_handler_ep: Some only when the slot holds an Endpoint capability
fault_handler_ep_none(t) == None
fault_handler_ep_any(t) == Some(EndpointCapMint("E1", 0))
fault_handler_ep(t) ==
    IF fault_handler_ep_f[t].type = "Endpoint" THEN Some(fault_handler_ep_f[t]) ELSE None

\* --------------------------------------------------------------- queues
\* TcbQueue: append at the tail, take at the head
enqueue_front(q, t) == <<t>> \o q
enqueue(q, t) == Append(q, t)

\* TcbObj::detach: unlink the TCB's node from the queue that holds it
detach_keep(q, t) == q
detach(q, t) == SelectSeq(q, LAMBDA x : x # t)

Members(q) == {q[i] : i \in DOMAIN q}

\* schedule(): the head of the ready queue, or the idle thread when it is empty
NextThread(rq) == IF rq = <<>> THEN idle ELSE Head(rq)
RestQ(rq) == IF rq = <<>> THEN <<>> ELSE Tail(rq)

\* Which side waits on an endpoint: "Free", "Sending" or "Receiving"
EpState(e) == IF epq[e] = <<>> THEN "Free" ELSE State(Head(epq[e]))

\* ------------------------------------------------------ message transfer
\* The first n message registers taken from src, the others kept from old.
CopyMRs(old, src, n) == [i \in DOMAIN old |-> IF i <= n THEN src[i] ELSE old[i]]

\* The user thread's registers after it loads message m before trapping.
LoadMsg(f, m) ==
    [info |-> m.info, mr |-> CopyMRs(f.mr, m.mr, m.info.length), badge |-> f.badge]

\* The registers after the kernel writes RespInfo(code) into MR0.
SetResp(f, code) == [f EXCEPT !.info = RespInfo(code)]

\* The message the kernel synthesizes for a fault: kind and faulting PC.
FaultMsg(fl) == [info |-> MsgInfo(fl.kind, 1, 0), mr |-> <<fl.pc>>]

\* The message a sender offers: its fault message when it is faulted, else its registers.
MsgOf(s) ==
    IF fault[s].some THEN FaultMsg(fault[s].v) ELSE [info |-> tf[s].info, mr |-> tf[s].mr]

\* Every capability the message names resolves in the sender's CSpace.
CapsResolve_lax(m, s) == TRUE
CapsResolve(m, s) == m.info.ncaps = 0 \/ srcslot[s] # NullCap

\* The receiver's registers after the transfer of m with badge b:
\* the info word, the first `length` message registers and the badge.
Transfer(f, m, b) ==
    [info |-> m.info, mr |-> CopyMRs(f.mr, m.mr, m.info.length), badge |-> b]

\* The badge a receiver learns from a queued sender: its sending badge, 0 when absent.
BadgeOf(s) ==
    LET o == sending_badge(sending_badge_f[s]) IN IF o.some THEN o.v ELSE 0

\* The receive slot after the transfer: a derived copy of the sender's capability.
Installed(m, s, r) == IF m.info.ncaps > 0 THEN srcslot[s] ELSE rcvslot[r]

\* ------------------------------------------------------------- initial state
Faults == { [kind |-> 3, pc |-> 9] }
VtCaps == {"V1", "V2"}
Unmapped == [vaddr |-> None, asid |-> None, level |-> None]

\* The badge of the endpoint capabilities each thread was handed at boot:
\* A's are badged, B's and C's are unbadged.
CapBadge(t) == IF t = "A" THEN 5 ELSE 0

InitTf == [info |-> RespInfo("Ok"), mr |-> <<0>>, badge |-> 0]

\* The page global directories of V1 and V2 are pages 1 and 2; the TCB objects lie
\* one after the other from the first TCB-aligned address on.
InitPgd ==
    pgd = [v \in VtCaps |-> IF v = "V1" THEN Pow2(PageBits) ELSE 2 * Pow2(PageBits)]
InitKaddr ==
    kaddr = [t \in TCBS \cup {idle} |->
                Pow2(TCB_OBJ_BIT_SZ) *
                   (CASE t = "A" -> 1 [] t = "B" -> 2 [] t = "C" -> 3 [] OTHER -> 4)]
InitPlaced == InitPgd /\ InitKaddr

\* TcbObj::new: the fields every run starts from.
InitFields ==
    /\ sending_badge_f = [t \in TCBS |-> 0]
    /\ reply_cap_f = [t \in TCBS |-> NullCap]
    /\ tf = [t \in TCBS |-> InitTf]
    /\ call = [t \in TCBS |-> FALSE]
    /\ rcvslot = [t \in TCBS |-> NullCap]
    /\ epq = [e \in EPS |-> <<>>]
    /\ ran = 0
    /\ steps = 0
    /\ clock = 0
    /\ vtcap = [v \in VtCaps |-> Unmapped]
    /\ last = [op |-> "None", ret |-> "Ok"]
    /\ epcaps = [e \in EPS |-> EpCaps]
    /\ dead = {}
    /\ cnode = [s \in CSlots |-> IF s = 1 THEN UntypedCapMint(0, UtBits, 0) ELSE NullCap]
    /\ cparent = [s \in CSlots |-> 0]
    /\ tables = {}
    /\ mapped = {}
    /\ lpc = "idle"
    /\ lva = 0
    /\ cur_free = 0
    /\ cpu = [tpidrro |-> 0, asid |-> 0, root |-> None, tlbi |-> None, restored |-> None]
    /\ cur_badge = FirstBadge
    /\ dpc = [c \in Callers |-> [pc |-> "idle", badge |-> 0]]
    /\ got = <<>>
    /\ event_handlers = [b \in EvBadges |-> None]
    /\ ntf_handler = [n \in NtfBitsSet |-> None]
    /\ locks = [ev |-> None, ntf |-> None]
    /\ spc = "recv"
    /\ loc = [badge |-> None, m0 |-> 0, mask |-> 0, ntf |-> 0]
    /\ calls = <<>>
    /\ visited = <<>>
    /\ hist = <<>>
    /\ child = NoChild

InitNew == InitFields /\ InitPlaced

\* The boot-time set-up of the user threads: each has its CSpace and VSpace roots,
\* A has a badged fault handler endpoint and a frame capability it can send.
InitBootCaps ==
    /\ time_slice = [t \in TCBS |-> Quantum]
    /\ cspace = [t \in TCBS |-> CNodeCapMint("root")]
    /\ vspace = [t \in TCBS |-> VTableCapMint(Pow2(PageBits))]
    /\ fault_handler_ep_f =
          [t \in TCBS |-> IF t = "A" THEN EndpointCapMint("E2", 5) ELSE NullCap]
    /\ srcslot = [t \in TCBS |-> IF t = "A" THEN FrameCapMint("F") ELSE NullCap]

InitBoot == InitNew /\ InitBootCaps

\* Three user threads: one activated, the other two on the ready queue in either order.
Init ==
    /\ InitBoot
    /\ state = [t \in TCBS |-> "Ready"]
    /\ fault = [t \in TCBS |-> None]
    /\ current \in TCBS
    /\ readyQ \in {q \in [1..2 -> TCBS \ {current}] : q[1] # q[2]}

\* ------------------------------------------------------------ endpoint IPC
\* One more kernel entry, within the explored budget.
Entry == steps < MaxSteps /\ steps' = steps + 1

Running == current \in TCBS /\ Entry

\* The current thread blocks: schedule() activates the head of ready queue rq.
Block(rq) ==
    /\ current' = NextThread(rq)
    /\ readyQ' = RestQ(rq)
    /\ ran' = 0

\* Wake thread w from a wait: state -> Ready, enqueue on the scheduler.
WakeState(st, w) == set_state(st, w, "Ready")
WakeQ(rq, w) == enqueue(detach(rq, w), w)

\* Thread c joins the wait queue of endpoint e (and leaves any queue that held it).
EpEnqueue(qs, e, c) ==
    [x \in EPS |-> IF x = e THEN enqueue(detach(qs[x], c), c) ELSE detach(qs[x], c)]

\* NBSend never enqueues: with no receiver waiting it returns WouldBlock.
NonBlocking_never(kind) == FALSE
NonBlocking(kind) == kind = "NBSend"

\* Send / NBSend / Call by the current thread through a capability to endpoint e
\* with badge b, with message m in its registers.
SendInvoke(kind, e, b, m) ==
    LET c == current
        f == LoadMsg(tf[c], m)
    IN
    /\ Running
    /\ UNCHANGED <<time_slice, fault, clock, srcslot, tcbvars, last, objvars>>
    /\ IF EpState(e) = "Receiving" THEN
          LET r == Head(epq[e]) IN
          IF ~CapsResolve(f, c) THEN
              \* the transfer fails as a whole: neither side changes
              /\ tf' = [tf EXCEPT ![c] = SetResp(f, "InvalidCapability")]
              /\ UNCHANGED <<state, sending_badge_f, reply_cap_f, call, rcvslot,
                             readyQ, epq, current, ran>>
          ELSE
              /\ rcvslot' = [rcvslot EXCEPT ![r] = Installed(f, c, r)]
              /\ epq' = [epq EXCEPT ![e] = Tail(@)]
              /\ UNCHANGED sending_badge_f
              /\ IF kind = "Call" THEN
                    \* the caller blocks awaiting the reply; the receiver holds the Reply cap
                    /\ tf' = [tf EXCEPT ![c] = f, ![r] = Transfer(tf[r], f, b)]
                    /\ state' = set_state(WakeState(state, r), c, "Receiving")
                    /\ reply_cap_f' = set_reply(reply_cap_f, r, Some(c))
                    /\ call' = [call EXCEPT ![c] = TRUE]
                    /\ Block(WakeQ(readyQ, r))
                 ELSE
                    /\ tf' = [tf EXCEPT ![c] = SetResp(f, "Ok"),
                                        ![r] = Transfer(tf[r], f, b)]
                    /\ state' = WakeState(state, r)
                    /\ readyQ' = WakeQ(readyQ, r)
                    /\ UNCHANGED <<reply_cap_f, call, current, ran>>
       ELSE IF NonBlocking(kind) THEN
          /\ tf' = [tf EXCEPT ![c] = SetResp(f, "WouldBlock")]
          /\ UNCHANGED <<state, sending_badge_f, reply_cap_f, call, rcvslot,
                         readyQ, epq, current, ran>>
       ELSE
          \* empty or sender queue: the sender is enqueued
          /\ tf' = [tf EXCEPT ![c] = f]
          /\ state' = set_state(state, c, "Sending")
          /\ sending_badge_f' = set_sending_badge(sending_badge_f, c, b)
          /\ call' = [call EXCEPT ![c] = (kind = "Call")]
          /\ epq' = EpEnqueue(epq, e, c)
          /\ Block(detach(readyQ, c))
          /\ UNCHANGED <<reply_cap_f, rcvslot>>

\* An endpoint can be invoked while some user CSpace still holds a capability to it.
Invocable(e) == epcaps[e] > 0

Send ==
    \E e \in EPS, m \in Msgs : Invocable(e) /\ SendInvoke("Send", e, CapBadge(current), m)
NBSend ==
    \E e \in EPS, m \in Msgs : Invocable(e) /\ SendInvoke("NBSend", e, CapBadge(current), m)
Call ==
    \E e \in EPS, m \in Msgs : Invocable(e) /\ SendInvoke("Call", e, CapBadge(current), m)

\* Recv by the current thread on endpoint e.
RecvInvoke(e) ==
    LET c == current IN
    /\ Running
    /\ UNCHANGED <<time_slice, fault, clock, srcslot, sending_badge_f, tcbvars, last,
                   objvars>>
    /\ IF EpState(e) = "Sending" THEN
          LET s == Head(epq[e])
              m == MsgOf(s)
          IN
          IF ~CapsResolve(m, s) THEN
              /\ tf' = [tf EXCEPT ![c] = SetResp(tf[c], "InvalidCapability")]
              /\ UNCHANGED <<state, reply_cap_f, call, rcvslot, readyQ, epq,
                             current, ran>>
          ELSE
              /\ rcvslot' = [rcvslot EXCEPT ![c] = Installed(m, s, c)]
              /\ epq' = [epq EXCEPT ![e] = Tail(@)]
              /\ UNCHANGED <<call, current, ran>>
              /\ IF call[s] \/ fault[s].some THEN
                    \* the sender now awaits the reply, held by no queue
                    /\ tf' = [tf EXCEPT ![c] = Transfer(tf[c], m, BadgeOf(s))]
                    /\ state' = set_state(state, s,
                                          IF fault[s].some THEN "Fault" ELSE "Receiving")
                    /\ reply_cap_f' = set_reply(reply_cap_f, c, Some(s))
                    /\ UNCHANGED readyQ
                 ELSE
                    /\ tf' = [tf EXCEPT ![c] = Transfer(tf[c], m, BadgeOf(s)),
                                        ![s] = SetResp(tf[s], "Ok")]
                    /\ state' = WakeState(state, s)
                    /\ readyQ' = WakeQ(readyQ, s)
                    /\ UNCHANGED reply_cap_f
       ELSE
          /\ state' = set_state(state, c, "Receiving")
          /\ epq' = EpEnqueue(epq, e, c)
          /\ Block(detach(readyQ, c))
          /\ UNCHANGED <<reply_cap_f, call, tf, rcvslot>>

Recv == \E e \in EPS : Invocable(e) /\ RecvInvoke(e)

\* Reply by the current thread with message m through the Reply capability in its reply slot.
ReplyInvoke(m) ==
    LET c == current
        o == reply_cap(reply_cap_f, c)
        w == o.v
        f == LoadMsg(tf[c], m)
    IN
    /\ Running
    /\ UNCHANGED <<time_slice, clock, srcslot, sending_badge_f, epq, current, ran,
                   tcbvars, last, objvars>>
    /\ IF ~o.some \/ ~CapsResolve(f, c) THEN
          /\ tf' = [tf EXCEPT ![c] = SetResp(f, "InvalidCapability")]
          /\ UNCHANGED <<state, reply_cap_f, fault, call, rcvslot, readyQ>>
       ELSE
          /\ tf' = [tf EXCEPT ![c] = SetResp(f, "Ok"), ![w] = Transfer(tf[w], f, 0)]
          /\ rcvslot' = [rcvslot EXCEPT ![w] = Installed(f, c, w)]
          /\ state' = WakeState(state, w)
          /\ readyQ' = WakeQ(readyQ, w)
          /\ fault' = [fault EXCEPT ![w] = None]
          /\ call' = [call EXCEPT ![w] = FALSE]
          /\ reply_cap_f' = set_reply(reply_cap_f, c, None)

Reply == \E m \in ReplyMsgs : ReplyInvoke(m)

\* ------------------------------------------------------------- fault path
\* The current thread takes synchronous fault fl.
FaultRaise(fl) ==
    LET c == current
        ho == fault_handler_ep(c)
        h == ho.v
    IN
    /\ Running
    /\ fault' = [fault EXCEPT ![c] = Some(fl)]
    /\ UNCHANGED <<time_slice, clock, srcslot, call, tcbvars, last, objvars>>
    /\ IF ~ho.some THEN
          /\ state' = set_state(state, c, "Fault")
          /\ Block(detach(readyQ, c))
          /\ UNCHANGED <<sending_badge_f, reply_cap_f, tf, rcvslot, epq>>
       ELSE IF EpState(h.obj) = "Receiving" THEN
          LET r == Head(epq[h.obj]) IN
          /\ tf' = [tf EXCEPT ![r] = Transfer(tf[r], FaultMsg(fl), h.badge)]
          /\ epq' = [epq EXCEPT ![h.obj] = Tail(@)]
          /\ state' = WakeState(set_state(state, c, "Fault"), r)
          /\ reply_cap_f' = set_reply(reply_cap_f, r, Some(c))
          /\ Block(WakeQ(readyQ, r))
          /\ UNCHANGED <<sending_badge_f, rcvslot>>
       ELSE
          \* the synthesized Send blocks on the handler endpoint
          /\ state' = set_state(set_state(state, c, "Fault"), c, "Sending")
          /\ sending_badge_f' = set_sending_badge(sending_badge_f, c, h.badge)
          /\ epq' = EpEnqueue(epq, h.obj, c)
          /\ Block(detach(readyQ, c))
          /\ UNCHANGED <<reply_cap_f, tf, rcvslot>>

Fault == \E fl \in Faults : FaultRaise(fl)

\* ---------------------------------------------------------------- timer
\* The periodic timer fires with n elapsed ticks.
TickBody(n) ==
    LET c == current
        sl == timeslice_sub(time_slice, c, n)
    IN
    /\ UNCHANGED <<state, sending_badge_f, reply_cap_f, fault, tf, call, srcslot,
                   rcvslot, epq, tcbvars, last, objvars>>
    /\ IF c = idle THEN
          /\ current' = NextThread(readyQ)
          /\ readyQ' = RestQ(readyQ)
          /\ ran' = 0
          /\ UNCHANGED time_slice
       ELSE IF sl[c] = 0 THEN
          \* slice used up: refill, move to the tail, activate the head
          LET rq == enqueue(detach(readyQ, c), c) IN
          /\ time_slice' = set_timeslice(sl, c, Quantum)
          /\ current' = Head(rq)
          /\ readyQ' = Tail(rq)
          /\ ran' = 0
       ELSE
          /\ time_slice' = sl
          /\ ran' = ran + n
          /\ UNCHANGED <<current, readyQ>>

\* A timer interrupt of a coarse timer: at least a whole quantum has elapsed.
Preempt == \E n \in Quantum..(Quantum + 1) : Entry /\ TickBody(n) /\ UNCHANGED clock

Next == Send \/ NBSend \/ Call \/ Recv \/ Reply \/ Fault \/ Preempt

Spec == Init /\ [][Next]_vars

\* ------------------------------------------------------ TCB configuration
\* Page number (paddr >> 12) of the page global directory a VTable capability names.
PgdPage(v) == pgd[v] \div Pow2(PageBits)

\* The capabilities user space may pass to configure.
CSpaceArgs == {None, Some(CNodeCapMint("root"))}
VSpaceArgs == {None} \cup {Some(v) : v \in VtCaps}
HandlerArgs == {None, Some(EndpointCapMint("E1", 0)), Some(EndpointCapMint("E2", 5))}

\* NullCap::try_from(&slot): succeeds only on a slot that holds the Null capability.
NullCapTryFrom(slot) == slot = NullCap

\* CapRef::derive into a destination already checked to be Null: the slot of t
\* receives a capability to the same object.
derive(slots, t, cap) == [slots EXCEPT ![t] = cap]

\* VTableCap::set_mapped_vaddr_asid(vaddr, asid, level) on capability v
set_mapped_vaddr_asid(vt, v, vaddr, asid, level) ==
    [vt EXCEPT ![v] = [vaddr |-> Some(vaddr), asid |-> Some(asid), level |-> Some(level)]]

\* TcbObj::configure(cspace, vspace, fault_handler_ep) on TCB t. The three steps run
\* in the order vspace, cspace, fault handler; each `?` returns at once and keeps
\* what the earlier steps did.
Configure(t, cs, vs, fh) ==
    LET vsOk == vs.some => NullCapTryFrom(vspace[t])
        csOk == cs.some => NullCapTryFrom(cspace[t])
        fhOk == fh.some => NullCapTryFrom(fault_handler_ep_f[t])
    IN
    /\ vspace' = IF vs.some /\ vsOk
                 THEN derive(vspace, t, VTableCapMint(pgd[vs.v])) ELSE vspace
    /\ vtcap' = IF vs.some /\ vsOk
                THEN set_mapped_vaddr_asid(vtcap, vs.v, 0, PgdPage(vs.v), "top")
                ELSE vtcap
    /\ cspace' = IF vsOk /\ cs.some /\ csOk THEN derive(cspace, t, cs.v) ELSE cspace
    /\ fault_handler_ep_f' =
          IF vsOk /\ csOk /\ fh.some /\ fhOk
          THEN derive(fault_handler_ep_f, t, fh.v) ELSE fault_handler_ep_f
    /\ last' = [op |-> "configure",
                ret |-> IF vsOk /\ csOk /\ fhOk THEN "Ok" ELSE "Err"]
    /\ UNCHANGED <<state, time_slice, sending_badge_f, reply_cap_f, fault, tf, call,
                   srcslot, rcvslot, readyQ, epq, current, ran, steps, clock, objvars>>

TcbConfigure ==
    \E t \in TCBS, cs \in CSpaceArgs, vs \in VSpaceArgs, fh \in HandlerArgs :
        Configure(t, cs, vs, fh)

\* Freshly created TCBs (TcbObj::new), not yet handed to the scheduler.
InitFresh ==
    /\ state = [t \in TCBS |-> "Ready"]
    /\ fault = [t \in TCBS |-> None]
    /\ time_slice = [t \in TCBS |-> 0]
    /\ cspace = [t \in TCBS |-> NullCap]
    /\ vspace = [t \in TCBS |-> NullCap]
    /\ fault_handler_ep_f = [t \in TCBS |-> NullCap]
    /\ srcslot = [t \in TCBS |-> NullCap]
    /\ current = idle
    /\ readyQ = <<>>

InitCfg == InitNew /\ InitFresh

SpecCfg == InitCfg /\ [][TcbConfigure]_vars

\* ------------------------------------------------------ round-robin runs
\* The periodic timer interrupt reports n elapsed ticks (at least one).
Tick ==
    \E n \in 1..MaxElapsed :
        /\ clock + n <= MaxClock
        /\ clock' = clock + n
        /\ TickBody(n)
        /\ UNCHANGED steps

\* Exactly two Ready threads, A activated and B queued, which never block;
\* C took a fault with no handler installed and stays in Fault.
InitRR ==
    /\ InitBoot
    /\ state = [t \in TCBS |-> IF t = "C" THEN "Fault" ELSE "Ready"]
    /\ fault = [t \in TCBS |-> IF t = "C" THEN Some([kind |-> 3, pc |-> 9]) ELSE None]
    /\ current = "A"
    /\ readyQ = <<"B">>

SpecRR == InitRR /\ [][Tick]_vars

\* ------------------------------------------------- time-slice arithmetic
\* The kernel calls timeslice_sub(n) on TCB t.
TimesliceSub(t, n) ==
    /\ time_slice' = timeslice_sub(time_slice, t, n)
    /\ last' = [op |-> "timeslice_sub", tcb |-> t, cur |-> timeslice(t), n |-> n]
    /\ UNCHANGED <<state, sending_badge_f, reply_cap_f, fault, tf, call, srcslot,
                   rcvslot, readyQ, epq, current, ran, steps, clock, tcbvars, objvars>>

TcbTimesliceSub == \E t \in TCBS, n \in 0..(UsizeMod - 1) : TimesliceSub(t, n)

\* A's time slice is any usize value; B and C are as TcbObj::new leaves them.
InitTs ==
    /\ InitNew
    /\ state = [t \in TCBS |-> "Ready"]
    /\ fault = [t \in TCBS |-> None]
    /\ \E c \in 0..(UsizeMod - 1) :
          time_slice = [t \in TCBS |-> IF t = "A" THEN c ELSE 0]
    /\ cspace = [t \in TCBS |-> NullCap]
    /\ vspace = [t \in TCBS |-> NullCap]
    /\ fault_handler_ep_f = [t \in TCBS |-> NullCap]
    /\ srcslot = [t \in TCBS |-> NullCap]
    /\ current = "A"
    /\ readyQ = <<>>

SpecTs == InitTs /\ [][TcbTimesliceSub]_vars

\* ------------------------------------------- deletion and external resume
\* The capabilities to endpoint e: those in user CSpaces and those held in the
\* fault-handler slots of TCBs (TCB deletion only detaches the TCB from its queue).
EpRefs(caps, e) ==
    caps[e] + Cardinality({t \in TCBS : fault_handler_ep_f[t].type = "Endpoint"
                                        /\ fault_handler_ep_f[t].obj = e})

\* Every thread of queue q detached from the ready queue rq and appended to it in order.
RECURSIVE WakeAll(_, _)
WakeAll(rq, q) == IF q = <<>> THEN rq ELSE WakeAll(WakeQ(rq, Head(q)), Tail(q))

\* The state map after every thread in set S became Ready.
RECURSIVE WakeStates(_, _)
WakeStates(st, S) ==
    IF S = {} THEN st
    ELSE LET w == CHOOSE x \in S : TRUE IN WakeStates(WakeState(st, w), S \ {w})

\* The current thread deletes a capability to endpoint e from a CSpace. When it was
\* the last one the endpoint is unreachable and its waiters are cancelled.
DeleteEpCap(e) ==
    LET caps == [epcaps EXCEPT ![e] = @ - 1]
        q == epq[e]
    IN
    /\ Running
    /\ epcaps[e] > 0
    /\ epcaps' = caps
    /\ UNCHANGED <<time_slice, sending_badge_f, reply_cap_f, fault, call, srcslot,
                   rcvslot, current, ran, clock, tcbvars, last, dead, cdtvars,
                   ldvars, hwvars, usrvars>>
    /\ IF EpRefs(caps, e) = 0 THEN
          /\ epq' = [epq EXCEPT ![e] = <<>>]
          /\ state' = WakeStates(state, Members(q))
          /\ readyQ' = WakeAll(readyQ, q)
          /\ tf' = [t \in TCBS |-> IF t \in Members(q) THEN SetResp(tf[t], "Cancelled")
                                   ELSE tf[t]]
       ELSE UNCHANGED <<epq, state, readyQ, tf>>

\* The current thread deletes the last capability to the TCB of another thread t:
\* t leaves whichever queue holds it and reply capabilities naming it are dropped.
DeleteTcb(t) ==
    /\ Running
    /\ t # current
    /\ t \notin dead
    /\ dead' = dead \cup {t}
    /\ readyQ' = detach(readyQ, t)
    /\ epq' = [e \in EPS |-> detach(epq[e], t)]
    /\ reply_cap_f' = [r \in TCBS |-> IF reply_cap(reply_cap_f, r) = Some(t)
                                      THEN NullCap ELSE reply_cap_f[r]]
    /\ UNCHANGED <<state, time_slice, sending_badge_f, fault, tf, call, srcslot,
                   rcvslot, current, ran, clock, tcbvars, last, epcaps, cdtvars,
                   ldvars, hwvars, usrvars>>

\* The current thread resumes faulted thread t: its registers are rewritten and its
\* state is set to Ready.
Resume(t) ==
    /\ Running
    /\ t \notin dead
    /\ State(t) = "Fault"
    /\ state' = set_state(state, t, "Ready")
    /\ fault' = [fault EXCEPT ![t] = None]
    /\ readyQ' = WakeQ(readyQ, t)
    /\ epq' = [e \in EPS |-> detach(epq[e], t)]
    /\ UNCHANGED <<time_slice, sending_badge_f, reply_cap_f, tf, call, srcslot,
                   rcvslot, current, ran, clock, tcbvars, last, objvars>>

DeleteEndpointCap == \E e \in EPS : DeleteEpCap(e)
DeleteThread == \E t \in TCBS : DeleteTcb(t)
ResumeThread == \E t \in TCBS : Resume(t)

NextDel ==
    \/ Send \/ Call \/ Recv \/ Reply \/ Fault \/ Preempt
    \/ DeleteEndpointCap \/ DeleteThread \/ ResumeThread

SpecDel == Init /\ [][NextDel]_vars

\* --------------------------------------- capability slots and the Untyped
\* The chain of ancestors of slot s in parent map par (n bounds the walk).
RECURSIVE Ancestors(_, _, _)
Ancestors(par, s, n) ==
    IF n = 0 \/ par[s] = 0 THEN {} ELSE {par[s]} \cup Ancestors(par, par[s], n - 1)

\* The proper descendants of slot x in the derivation tree.
Descendants_children(par, x) == {s \in CSlots : par[s] = x}
Descendants(par, x) == {s \in CSlots : x \in Ancestors(par, s, NumSlots)}

\* derive(parent, dst_null_slot): dst receives a capability to the same object, as a
\* child of src. Untyped capabilities are retyped, not derived.
DeriveSlot(src, dst) ==
    LET ok == cnode[src] # NullCap /\ cnode[src].type # "Untyped" /\ cnode[dst] = NullCap IN
    /\ src # dst
    /\ cnode' = IF ok THEN [cnode EXCEPT ![dst] = cnode[src]] ELSE cnode
    /\ cparent' = IF ok THEN [cparent EXCEPT ![dst] = src] ELSE cparent
    /\ last' = [op |-> "derive",
                ret |-> IF ok THEN "Ok"
                        ELSE IF cnode[dst] # NullCap THEN "SlotNotEmpty"
                        ELSE IF cnode[src] = NullCap THEN "SlotIsEmpty"
                        ELSE "InvalidCapability"]

\* delete(slot): the slot is emptied and unlinked; its children hang off its parent.
DeleteSlot(s) ==
    /\ cnode[s] # NullCap
    /\ cnode' = [cnode EXCEPT ![s] = NullCap]
    /\ cparent' = [t \in CSlots |-> IF t = s THEN 0
                                    ELSE IF cparent[t] = s THEN cparent[s]
                                    ELSE cparent[t]]
    /\ last' = [op |-> "delete", ret |-> "Ok"]

\* revoke(slot): every proper descendant is deleted, the slot itself survives.
RevokeSlot(x) ==
    LET D == Descendants(cparent, x) IN
    /\ cnode[x] # NullCap
    /\ cnode' = [s \in CSlots |-> IF s \in D THEN NullCap ELSE cnode[s]]
    /\ cparent' = [s \in CSlots |-> IF s \in D THEN 0 ELSE cparent[s]]
    /\ last' = [op |-> "revoke", ret |-> "Ok", n |-> Cardinality(D)]

\* Smallest multiple of 2^sb that is >= w.
AlignUp(w, sb) == ((w + Pow2(sb) - 1) \div Pow2(sb)) * Pow2(sb)


\* The untyped has count * 2^sb bytes left at the aligned watermark.
RetypeFits_always(ut, sb, count) == TRUE
RetypeFits(ut, sb, count) == AlignUp(ut.free, sb) + count * Pow2(sb) <= Pow2(ut.bits)

\* retype(untyped_slot u, Tcb, size_bits sb, count, dst_offset dst)
Retype(u, sb, count, dst) ==
    LET ut == cnode[u]
        dsts == dst..(dst + count - 1)
        base == AlignUp(ut.free, sb)
        err == IF sb < TCB_OBJ_BIT_SZ THEN "InvalidArgument"
               ELSE IF ~RetypeFits(ut, sb, count) THEN "NotEnoughMemory"
               ELSE IF \E d \in dsts : d \notin CSlots THEN "InvalidArgument"
               ELSE IF \E d \in dsts : cnode[d] # NullCap THEN "SlotNotEmpty"
               ELSE "Ok"
    IN
    /\ last' = [op |-> "retype", ret |-> err]
    /\ IF err = "Ok" THEN
          /\ cnode' = [s \in CSlots |->
                          IF s = u THEN [ut EXCEPT !.free = base + count * Pow2(sb)]
                          ELSE IF s \in dsts
                          THEN TcbCapMint(ut.paddr + base + (s - dst) * Pow2(sb))
                          ELSE cnode[s]]
          /\ cparent' = [s \in CSlots |-> IF s \in dsts THEN u ELSE cparent[s]]
       ELSE UNCHANGED <<cnode, cparent>>

\* Everything but the CNode and the invocation record.
notcdt == <<state, time_slice, sending_badge_f, reply_cap_f, fault, tf, call, srcslot,
            rcvslot, readyQ, epq, current, ran, steps, clock, tcbvars, delvars,
            ldvars, hwvars, usrvars>>

CapDerive == \E src \in CSlots, dst \in CSlots : DeriveSlot(src, dst) /\ UNCHANGED notcdt
CapDelete == \E s \in CSlots : DeleteSlot(s) /\ UNCHANGED notcdt
CapRevoke == \E x \in CSlots : RevokeSlot(x) /\ UNCHANGED notcdt
\* Dispatch invokes retype only through a capability of type Untyped.
UntypedSlots == {s \in CSlots : cnode[s].type = "Untyped"}

UntypedRetype ==
    \E u \in UntypedSlots, sb \in 0..MaxSizeBits, count \in 1..MaxCount, dst \in CSlots :
        Retype(u, sb, count, dst) /\ UNCHANGED notcdt

NextCap == CapDerive \/ CapDelete \/ CapRevoke \/ UntypedRetype

\* The booted system with A activated; slot 1 of the CNode holds the Untyped, the
\* other slots are Null.
InitCap == Init /\ current = "A" /\ readyQ = <<"B", "C">>

SpecCap == InitCap /\ [][NextCap]_vars

\* ------------------------------------------------------ VSpace and the loader
\* A page address is PtLevels + 1 table indices of one bit each, the root's first.
\* The table at level l on the walk to va is named by the first l indices.
TableKey(va, l) == <<l, va \div Pow2(PtLevels + 1 - l)>>

\* The intermediate levels on the walk to va that have no table.
Missing(tb, va) == {l \in 1..PtLevels : TableKey(va, l) \notin tb}

Least(S) == CHOOSE l \in S : \A k \in S : l <= k

\* The level a failed walk reports: the first level from the root without a table.
MissLevel(tb, va) == Least(Missing(tb, va))

VOk == [ret |-> "Ok", level |-> 0]
VErr(e, l) == [ret |-> e, level |-> l]

\* map_frame(frame, vaddr, perms, level) of a fresh frame
map_frame(tb, mp, va) ==
    IF Missing(tb, va) # {} THEN VErr("VSpaceTableMiss", MissLevel(tb, va))
    ELSE IF va \in mp THEN VErr("VSpaceSlotOccupied", PtLevels)
    ELSE VOk

\* map_table(vtable, vaddr, level) of a fresh table
map_table(tb, va, l) ==
    IF l \notin 1..PtLevels THEN VErr("InvalidArgument", l)
    ELSE IF \E k \in 1..(l - 1) : TableKey(va, k) \notin tb
    THEN VErr("VSpaceTableMiss", Least({k \in 1..(l - 1) : TableKey(va, k) \notin tb}))
    ELSE IF TableKey(va, l) \in tb THEN VErr("VSpaceSlotOccupied", l)
    ELSE VOk

\* The pages of the ELF image: two that share every table, one that shares all but
\* the last, and two on walks of their own.
Pages == {0, 1, 2, Pow2(PtLevels), Pow2(PtLevels + 1) - 1}

\* Everything but the loader, the child's VSpace and the invocation record.
notld == <<state, time_slice, sending_badge_f, reply_cap_f, fault, tf, call, srcslot,
           rcvslot, readyQ, epq, current, ran, steps, clock, tcbvars, delvars, cdtvars,
           hwvars, usrvars>>

\* load_elf calls back for the next page of the image; a frame is allocated for it.
LoaderBegin ==
    /\ lpc = "idle"
    /\ \E va \in Pages \ mapped : lva' = va
    /\ lpc' = "map_frame"
    /\ UNCHANGED <<tables, mapped, cur_free, last, notld>>

\* while let Err(e) = vspace.map_frame(..): the call and the match on its result.
LoaderMapFrame ==
    LET r == map_frame(tables, mapped, lva) IN
    /\ lpc = "map_frame"
    /\ last' = [op |-> "map_frame", ret |-> r.ret, level |-> r.level]
    /\ mapped' = IF r.ret = "Ok" THEN mapped \cup {lva} ELSE mapped
    /\ lpc' = IF r.ret = "Ok" THEN "copy"
              ELSE IF r.ret = "VSpaceTableMiss" THEN "map_table"
              ELSE "panic"
    /\ UNCHANGED <<tables, lva, cur_free, notld>>

\* The VSpaceTableMiss{level} arm keeps the table it installed.
TableMissArm_forget(tb, va, l) == tb
\* The VSpaceTableMiss{level} arm: map_table(vtable_cap, vaddr, level).unwrap()
TableMissArm(tb, va, l) == tb \cup {TableKey(va, l)}

\* The arm of the match for VSpaceTableMiss{level}: a table is allocated and mapped
\* at the reported level, its capability is copied to the child and the loop repeats.
LoaderMapTable ==
    LET r == map_table(tables, lva, last.level) IN
    /\ lpc = "map_table"
    /\ IF r.ret = "Ok" THEN
          /\ tables' = TableMissArm(tables, lva, last.level)
          /\ cur_free' = cur_free + 1
          /\ lpc' = "map_frame"
       ELSE
          /\ lpc' = "panic"
          /\ UNCHANGED <<tables, cur_free>>
    /\ last' = [op |-> "map_table", ret |-> r.ret, level |-> r.level]
    /\ UNCHANGED <<mapped, lva, notld>>

\* After the loop: the frame capability is copied to the child.
LoaderCopyFrame ==
    /\ lpc = "copy"
    /\ cur_free' = cur_free + 1
    /\ lpc' = "idle"
    /\ UNCHANGED <<tables, mapped, lva, last, notld>>

NextLoad == LoaderBegin \/ LoaderMapFrame \/ LoaderMapTable \/ LoaderCopyFrame

\* The loader runs as the activated thread and keeps running until the image is loaded.
SpecLoad == InitCap /\ [][NextLoad]_vars /\ WF_vars(NextLoad)

\* ------------------------------------------------------------ activation
\* x >> n and x & MASK!(n) on unsigned words
Shr(x, n) == x \div Pow2(n)
MASK(n) == Pow2(n) - 1
RECURSIVE BitAnd(_, _)
BitAnd(a, b) ==
    IF a = 0 \/ b = 0 THEN 0
    ELSE (IF a % 2 = 1 /\ b % 2 = 1 THEN 1 ELSE 0) + 2 * BitAnd(a \div 2, b \div 2)
RECURSIVE BitOr(_, _)
BitOr(a, b) ==
    IF a = 0 THEN b
    ELSE IF b = 0 THEN a
    ELSE (IF a % 2 = 1 \/ b % 2 = 1 THEN 1 ELSE 0) + 2 * BitOr(a \div 2, b \div 2)
\* x << n in a usize of VaBits + CpuBits bits
Shl(x, n) == (x * Pow2(n)) % Pow2(VaBits + CpuBits)

\* The vspace slot of a TCB; the idle thread's is as TcbObj::new left it.
VspaceSlot(t) == IF t = idle THEN NullCap ELSE vspace[t]

\* TcbObj::asid
asid(t) ==
    IF VspaceSlot(t).type = "VTable"
    THEN Some(BitAnd(Shr(VspaceSlot(t).paddr, PageBits), MASK(AsidBits)))
    ELSE None

\* TcbObj::install_vspace(vspace) on TCB t with VTable capability v
install_vspace(t, v) ==
    LET a == BitAnd(Shr(pgd[v], PageBits), MASK(AsidBits)) IN
    /\ vtcap' = set_mapped_vaddr_asid(vtcap, v, 0, a, "4")
    /\ vspace' = [vspace EXCEPT ![t] = VTableCapMint(pgd[v])]
    /\ last' = [op |-> "install_vspace", ret |-> "Ok"]
    /\ UNCHANGED <<state, time_slice, sending_badge_f, reply_cap_f, fault, tf, call,
                   srcslot, rcvslot, readyQ, epq, current, ran, steps, clock, cspace,
                   fault_handler_ep_f, objvars>>

\* TcbObj::thread_id without the mask
thread_id_nomask(a) == Shr(a, TCB_OBJ_BIT_SZ)
\* TcbObj::thread_id of the TCB object at address a
thread_id(a) == Shr(BitAnd(a, MASK(VaBits)), TCB_OBJ_BIT_SZ)

\* TcbObj::switch_vspace that does not check the slot
switch_vspace_unchecked(regs, t) ==
    LET a == IF asid(t).some THEN asid(t).v ELSE 0
        p == IF asid(t).some THEN VspaceSlot(t).paddr ELSE 0
    IN [regs |-> [regs EXCEPT !.root = Some(p), !.asid = a, !.tlbi = Some(a)], ret |-> "Ok"]
\* TcbObj::switch_vspace: the registers after the call and its result
switch_vspace(regs, t) ==
    IF asid(t).some
    THEN [regs |-> [regs EXCEPT !.root = Some(VspaceSlot(t).paddr), !.asid = asid(t).v,
                                !.tlbi = Some(asid(t).v)],
          ret |-> "Ok"]
    ELSE [regs |-> regs, ret |-> "Err"]

\* TcbObj::activate on TCB t, on the CPU numbered c
activate(t, c) ==
    LET r1 == [cpu EXCEPT !.tpidrro = BitOr(Shl(c, VaBits), thread_id(kaddr[t]))]
        sw == switch_vspace(r1, t)
    IN
    /\ cpu' = [sw.regs EXCEPT !.restored = Some(t)]
    /\ last' = [op |-> "activate", tcb |-> t, cpuid |-> c, ret |-> sw.ret]
    /\ UNCHANGED <<state, time_slice, sending_badge_f, reply_cap_f, fault, tf, call,
                   srcslot, rcvslot, readyQ, epq, current, ran, steps, clock, tcbvars,
                   delvars, cdtvars, ldvars, pgd, kaddr, usrvars>>

Cpus == 0..(NumCpus - 1)
Activate == \E t \in TCBS \cup {idle}, c \in Cpus : activate(t, c)
InstallVSpace == \E v \in VtCaps : install_vspace("A", v)
ConfigureVSpace == \E v \in VtCaps : Configure("B", None, Some(v), None)

\* The page-aligned physical addresses a page global directory can lie at.
PgdAddrs == {p * Pow2(PageBits) : p \in 1..(Pow2(AsidBits + HighBits) - 1)}

\* Fresh TCBs; the page global directory of V1 lies at any page, that of V2 at the
\* first page V1 leaves free.
InitAsid ==
    /\ InitFields
    /\ InitKaddr
    /\ InitFresh
    /\ \E p \in PgdAddrs :
          pgd = [v \in VtCaps |->
                    IF v = "V1" THEN p
                    ELSE IF p = Pow2(PageBits) THEN 2 * Pow2(PageBits) ELSE Pow2(PageBits)]

NextAsid == InstallVSpace \/ ConfigureVSpace \/ Activate
SpecAsid == InitAsid /\ [][NextAsid]_vars

\* The TCB-aligned addresses of the machine word.
TcbAddrs ==
    {a * Pow2(TCB_OBJ_BIT_SZ) : a \in 1..(Pow2(VaBits + CpuBits - TCB_OBJ_BIT_SZ) - 1)}

\* The booted system with the TCB objects of A and B at any two distinct aligned
\* addresses, those of C and of the idle thread at the first two addresses left.
InitTid ==
    /\ InitFields
    /\ InitPgd
    /\ InitBootCaps
    /\ state = [t \in TCBS |-> "Ready"]
    /\ fault = [t \in TCBS |-> None]
    /\ current = "A"
    /\ readyQ = <<"B", "C">>
    /\ \E a \in TcbAddrs : \E b \in TcbAddrs \ {a} :
          LET c == Least(TcbAddrs \ {a, b})
              i == Least(TcbAddrs \ {a, b, c})
          IN kaddr = [t \in TCBS \cup {idle} |->
                         CASE t = "A" -> a [] t = "B" -> b [] t = "C" -> c [] OTHER -> i]

SpecTid == InitTid /\ [][Activate]_vars

\* ------------------------------------------------------ badge allocation
\* AtomicUsize::fetch_add that stores nothing
fetch_add_stale(cur, n) == [old |-> cur, new |-> cur]
\* AtomicUsize::fetch_add(n, Relaxed): one atomic read-modify-write
fetch_add(cur, n) == [old |-> cur, new |-> cur + n]

\* NonZeroUsize::new
NonZeroUsize_new(b) == IF b = 0 THEN None ELSE Some(b)

\* Everything but the badge counter, the callers and the invocation record.
notbadge == <<state, time_slice, sending_badge_f, reply_cap_f, fault, tf, call, srcslot,
              rcvslot, readyQ, epq, current, ran, steps, clock, tcbvars, delvars, cdtvars,
              ldvars, hwvars, last, srvvars, child>>

\* Badges fetched so far: those returned and those of calls still in flight.
InFlight == {c \in Callers : dpc[c].pc = "copy"}
Issued == Len(got) + Cardinality(InFlight)

\* Ep::derive_badged_cap, first statement, by caller c
DeriveFetch(c) ==
    LET r == fetch_add(cur_badge, 1) IN
    /\ dpc[c].pc = "idle"
    /\ Issued < MaxCalls
    /\ cur_badge' = r.new
    /\ dpc' = [dpc EXCEPT ![c] = [pc |-> "copy", badge |-> r.old]]
    /\ UNCHANGED <<got, notbadge>>

\* Ep::derive_badged_cap, copy_cap_badged and return, by caller c
DeriveReturn(c) ==
    /\ dpc[c].pc = "copy"
    /\ got' = Append(got, [who |-> c, badge |-> dpc[c].badge,
                           cap |-> NonZeroUsize_new(dpc[c].badge)])
    /\ dpc' = [dpc EXCEPT ![c] = [pc |-> "idle", badge |-> 0]]
    /\ UNCHANGED <<cur_badge, notbadge>>

DeriveBadgedFetch == \E c \in Callers : DeriveFetch(c)
DeriveBadgedReturn == \E c \in Callers : DeriveReturn(c)
NextBadge == DeriveBadgedFetch \/ DeriveBadgedReturn
SpecBadge == InitCap /\ [][NextBadge]_vars

\* ------------------------------------------------------ the endpoint server
\* Everything but the EpServer and its server thread.
notsrv == <<state, time_slice, sending_badge_f, reply_cap_f, fault, tf, call, srcslot,
            rcvslot, readyQ, epq, current, ran, steps, clock, tcbvars, delvars, cdtvars,
            ldvars, hwvars, last, cur_badge, dpc, got, child>>

\* HashMap::get(&b) that ignores the key
HashGet_any(eh, b) ==
    IF \E k \in DOMAIN eh : eh[k].some
    THEN eh[CHOOSE k \in DOMAIN eh : eh[k].some /\ \A j \in DOMAIN eh : eh[j].some => k <= j]
    ELSE None
\* HashMap::get(&b).map(|cb| cb.clone())
HashGet(eh, b) == IF b \in DOMAIN eh THEN eh[b] ELSE None

\* usize::trailing_zeros in a word of NtfBits bits
RECURSIVE trailing_zeros(_)
trailing_zeros(m) ==
    IF m = 0 THEN NtfBits
    ELSE IF m % 2 = 1 THEN 0
    ELSE 1 + trailing_zeros(m \div 2)

\* ntf_mask &= !(1 << ntf) that clears nothing
clear_bit_keep(m, n) == m
\* ntf_mask &= !(1 << ntf)
clear_bit(m, n) == BitAnd(m, (Pow2(NtfBits) - 1) - ((1 * Pow2(n)) % Pow2(NtfBits)))

\* The registrations still allowed within the explored budget.
MayRegister == Len(hist) < MaxRegs

\* EpServer::insert_event(badge, cb): the map and the record after it
insert_event(b, h) ==
    /\ event_handlers' = [event_handlers EXCEPT ![b] = Some(h)]
    /\ hist' = Append(hist, [op |-> "insert_event", key |-> b, h |-> h])
    /\ UNCHANGED ntf_handler

\* EpServer::remove_event(badge)
remove_event(b) ==
    /\ event_handlers' = [event_handlers EXCEPT ![b] = None]
    /\ hist' = Append(hist, [op |-> "remove_event", key |-> b, h |-> "none"])
    /\ UNCHANGED ntf_handler

\* EpServer::insert_notification(ntf, cb)
insert_notification(n, h) ==
    /\ ntf_handler' = [ntf_handler EXCEPT ![n] = Some(h)]
    /\ hist' = Append(hist, [op |-> "insert_notification", key |-> n, h |-> h])
    /\ UNCHANGED event_handlers

\* Another thread registers or removes a handler; each call takes its mutex for
\* the one statement and so waits while the mutex is held.
InsertEvent ==
    /\ MayRegister /\ locks.ev = None
    /\ \E b \in EvBadges, h \in Handlers : insert_event(b, h)
    /\ UNCHANGED <<locks, spc, loc, calls, visited, notsrv>>
RemoveEvent ==
    /\ MayRegister /\ locks.ev = None
    /\ \E b \in EvBadges : remove_event(b)
    /\ UNCHANGED <<locks, spc, loc, calls, visited, notsrv>>
InsertNotification ==
    /\ MayRegister /\ locks.ntf = None
    /\ \E n \in NtfBitsSet, h \in Handlers : insert_notification(n, h)
    /\ UNCHANGED <<locks, spc, loc, calls, visited, notsrv>>

\* EpServer::run receives a message and handle_ipc takes the Message branch: an
\* unbadged message and a badge without handler print a warning and return; for a
\* registered badge the handler is cloned under the mutex and then called.
SrvMessage ==
    /\ spc = "recv" /\ locks.ev = None
    /\ \E badge \in {None} \cup {Some(b) : b \in EvBadges \cup {FirstBadge + 2}} :
          LET cb == IF badge.some THEN HashGet(event_handlers, badge.v) ELSE None IN
          /\ loc' = [badge |-> badge, m0 |-> 0, mask |-> 0, ntf |-> 0]
          /\ calls' = IF cb.some THEN <<[h |-> cb.v, arg |-> badge.v]>> ELSE <<>>
          /\ spc' = IF cb.some THEN "msg_call" ELSE "recv"
    /\ visited' = <<>>
    /\ UNCHANGED <<event_handlers, ntf_handler, locks, hist, notsrv>>

\* handle_ipc takes the Notification branch with mask m.
SrvNotification ==
    /\ spc = "recv"
    /\ \E m \in 0..(Pow2(NtfBits) - 1) :
          loc' = [badge |-> None, m0 |-> m, mask |-> m, ntf |-> 0]
    /\ calls' = <<>>
    /\ visited' = <<>>
    /\ spc' = "ntf_test"
    /\ UNCHANGED <<event_handlers, ntf_handler, locks, hist, notsrv>>

\* The loop test and the head of the body: the lowest set bit is taken, the
\* ntf_handler mutex is locked and the handler of the bit, if any, is called. The
\* guard lives as long as the reference cb into it: to the end of the loop body.
SrvNtfTest ==
    /\ spc = "ntf_test"
    /\ IF trailing_zeros(loc.mask) # NtfBits THEN
          LET ntf == trailing_zeros(loc.mask)
              cb == ntf_handler[ntf]
          IN
          /\ locks.ntf = None
          /\ locks' = [locks EXCEPT !.ntf = Some("srv")]
          /\ loc' = [loc EXCEPT !.ntf = ntf]
          /\ visited' = Append(visited, ntf)
          /\ calls' = IF cb.some THEN Append(calls, [h |-> cb.v, arg |-> ntf]) ELSE calls
          /\ spc' = IF cb.some THEN "ntf_call" ELSE "ntf_clear"
       ELSE
          /\ spc' = "recv"
          /\ UNCHANGED <<locks, loc, visited, calls>>
    /\ UNCHANGED <<event_handlers, ntf_handler, hist, notsrv>>

\* The end of the loop body: the bit is cleared and the guard is dropped.
SrvNtfClear ==
    /\ spc = "ntf_clear"
    /\ loc' = [loc EXCEPT !.mask = clear_bit(loc.mask, loc.ntf)]
    /\ locks' = [locks EXCEPT !.ntf = None]
    /\ spc' = "ntf_test"
    /\ UNCHANGED <<event_handlers, ntf_handler, calls, visited, hist, notsrv>>

\* Where the server thread continues when a callback returns.
AfterCall == IF spc = "msg_call" THEN "recv" ELSE "ntf_clear"
InCallback == spc \in {"msg_call", "ntf_call"}

\* The callback returns without calling into the EpServer.
HandlerReturn ==
    /\ InCallback
    /\ spc' = AfterCall
    /\ UNCHANGED <<event_handlers, ntf_handler, locks, loc, calls, visited, hist, notsrv>>

\* The callback calls insert_event or remove_event on the EpServer it was handed and
\* returns; the call spins for as long as the event_handlers mutex is held.
HandlerEvent ==
    /\ InCallback /\ MayRegister
    /\ IF locks.ev = None THEN
          /\ \/ \E b \in EvBadges, h \in Handlers : insert_event(b, h)
             \/ \E b \in EvBadges : remove_event(b)
          /\ spc' = AfterCall
       ELSE
          /\ spc' = "spin"
          /\ UNCHANGED <<event_handlers, ntf_handler, hist>>
    /\ UNCHANGED <<locks, loc, calls, visited, notsrv>>

\* The callback calls insert_notification on the EpServer it was handed and returns;
\* the call spins for as long as the ntf_handler mutex is held.
HandlerNotification ==
    /\ InCallback /\ MayRegister
    /\ IF locks.ntf = None THEN
          /\ \E n \in NtfBitsSet, h \in Handlers : insert_notification(n, h)
          /\ spc' = AfterCall
       ELSE
          /\ spc' = "spin"
          /\ UNCHANGED <<event_handlers, ntf_handler, hist>>
    /\ UNCHANGED <<locks, loc, calls, visited, notsrv>>

\* Messages with handlers that call back into the server.
NextMsg == InsertEvent \/ RemoveEvent \/ SrvMessage \/ HandlerReturn \/ HandlerEvent
SpecMsg == InitCap /\ [][NextMsg]_vars

\* Notifications with handlers that return.
SrvNtfStep == SrvNotification \/ SrvNtfTest \/ SrvNtfClear \/ HandlerReturn
NextNtf == InsertNotification \/ SrvNtfStep
SpecNtf == InitCap /\ [][NextNtf]_vars /\ WF_vars(SrvNtfStep)

\* The whole server with handlers that call back into it.
NextSrv ==
    \/ InsertEvent \/ RemoveEvent \/ InsertNotification
    \/ SrvMessage \/ SrvNotification \/ SrvNtfTest \/ SrvNtfClear
    \/ HandlerReturn \/ HandlerEvent \/ HandlerNotification
SpecSrv == InitCap /\ [][NextSrv]_vars

\* --------------------------------------------------------------------- spawn
\* Everything but the child being spawned.
notchild == <<state, time_slice, sending_badge_f, reply_cap_f, fault, tf, call, srcslot,
              rcvslot, readyQ, epq, current, ran, steps, clock, tcbvars, delvars, cdtvars,
              ldvars, hwvars, last, cur_badge, dpc, got, srvvars>>

\* The result of a system call or an allocation.
Results == {"Ok", "Err"}

\* The ? operator that drops the error and goes on
Try_ignore(res, c, cont) == IF res = "Ok" THEN cont ELSE [c EXCEPT !.pc = cont.pc]
\* The ? operator: the value on Ok, an early return of Err(()) otherwise
Try(res, c, cont) == IF res = "Ok" THEN cont ELSE [c EXCEPT !.pc = "done", !.ret = "Err"]
\* unwrap and expect: the value on Ok, a panic otherwise
Expect(res, c, cont) == IF res = "Ok" THEN cont ELSE [c EXCEPT !.pc = "done", !.ret = "panic"]
\* The call whose failure ended, or should have ended, the spawn.
Failing(res, c, op) == [c EXCEPT !.failed = IF res = "Ok" THEN c.failed ELSE op]

\* ProcessBuilder::spawn: the TCB, the root CNode and the root VNode are allocated.
SpawnProcess ==
    /\ child.pc = "none"
    /\ \E stdio \in BOOLEAN, res \in Results :
          child' = Failing(res, Expect(res, child,
                      [child EXCEPT !.kind = "process", !.stdio = stdio, !.pc = "load_elf"]),
                      "alloc_object")
    /\ UNCHANGED notchild

\* thread::spawn: the TCB is allocated and the stack is mapped.
SpawnThread ==
    /\ child.pc = "none"
    /\ \E res \in Results :
          child' = Failing(res, Expect(res, child,
                      [child EXCEPT !.kind = "thread", !.loaded = TRUE, !.pc = "configure"]),
                      "alloc_object")
    /\ UNCHANGED notchild

\* load_elf calls the closure for a segment: a frame is mapped, page tables are added
\* where they miss, and the capabilities are copied to the child's root CNode.
SpawnLoadSegment ==
    /\ child.pc = "load_elf"
    /\ NextLoad

\* load_elf returns; an Err leaves spawn through the ? of line 89, a panic of the
\* closure ends the spawner.
SpawnLoadReturn ==
    /\ child.pc = "load_elf"
    /\ lpc \in {"idle", "panic"}
    /\ \E res \in Results :
          child' = IF lpc = "panic"
                   THEN Failing("Err", Expect("Err", child, child), "closure")
                   ELSE Failing(res, Try(res, child,
                           [child EXCEPT !.loaded = TRUE, !.pc = "configure"]), "load_elf")
    /\ UNCHANGED notchild

\* child_tcb.configure(..).expect(..)
SpawnConfigure ==
    /\ child.pc = "configure"
    /\ \E res \in Results :
          child' = Failing(res, Expect(res, child,
                      [child EXCEPT !.configured = TRUE, !.pc = "set_registers"]),
                      "configure")
    /\ UNCHANGED notchild

\* child_tcb.set_registers(..).expect(..); a thread is resumed next, a process has
\* its capabilities copied first.
SpawnSetRegisters ==
    /\ child.pc = "set_registers"
    /\ \E res \in Results :
          child' = Failing(res, Expect(res, child,
                      [child EXCEPT !.regs = TRUE,
                                    !.pc = IF child.kind = "thread" THEN "resume"
                                           ELSE "TcbCap"]),
                      "set_registers")
    /\ UNCHANGED notchild

\* The statement after the cap_copy into a fixed slot.
AfterCopy(c) ==
    CASE c.pc = "TcbCap" -> "RootCNodeCap"
      [] c.pc = "RootCNodeCap" -> "RootVNodeCap"
      [] c.pc = "RootVNodeCap" -> IF c.stdio THEN "Stdio" ELSE "alloc_untyped"
      [] c.pc = "Stdio" -> "alloc_untyped"
      [] c.pc = "InitUntyped" -> "resume"

\* child_root_cn.cap_copy(ProcessCSpace::.., ..).map_err(|_| ())?
SpawnCapCopy ==
    /\ child.pc \in {"TcbCap", "RootCNodeCap", "RootVNodeCap", "Stdio", "InitUntyped"}
    /\ \E res \in Results :
          child' = Failing(res, Try(res, child,
                      [child EXCEPT !.copied = @ \cup {child.pc}, !.pc = AfterCopy(child)]),
                      "cap_copy")
    /\ UNCHANGED notchild

\* gsm!().alloc_object::<UntypedObj>(16).ok_or(())?
SpawnAllocUntyped ==
    /\ child.pc = "alloc_untyped"
    /\ \E res \in Results :
          child' = Failing(res, Try(res, child,
                      [child EXCEPT !.untyped = TRUE, !.pc = "InitUntyped"]),
                      "alloc_untyped")
    /\ UNCHANGED notchild

\* child_tcb.resume().expect(..) and the value spawn returns.
SpawnResume ==
    /\ child.pc = "resume"
    /\ \E res \in Results :
          child' = Failing(res, Expect(res, child,
                      [child EXCEPT !.resumed = TRUE, !.pc = "done", !.ret = "Ok"]),
                      "resume")
    /\ UNCHANGED notchild

NextSpawn ==
    \/ SpawnProcess \/ SpawnThread \/ SpawnLoadSegment \/ SpawnLoadReturn
    \/ SpawnConfigure \/ SpawnSetRegisters \/ SpawnCapCopy \/ SpawnAllocUntyped
    \/ SpawnResume
SpecSpawn == InitCap /\ [][NextSpawn]_vars

\* =================================================================== claims
CountIn(q, t) == Cardinality({i \in DOMAIN q : q[i] = t})
QueueCount(t) == CountIn(readyQ, t) + CountIn(epq["E1"], t) + CountIn(epq["E2"], t)
OnEndpoint(t) == \E e \in EPS : t \in Members(epq[e])
IndexIn(q, t) == CHOOSE i \in DOMAIN q : q[i] = t

\* C1: every TCB is linked into at most one queue (the ready queue or one endpoint
\* queue) and its state tag agrees with the queue: on the ready queue it is Ready, on
\* an endpoint queue it is Sending or Receiving, and in Fault with no handler it is
\* on no queue.
C1_OneQueueStateAgrees ==
    \A t \in TCBS :
        /\ QueueCount(t) <= 1
        /\ t \in Members(readyQ) => state[t] = "Ready"
        /\ OnEndpoint(t) => state[t] \in {"Sending", "Receiving"}
        /\ (state[t] = "Fault" /\ fault_handler_ep_f[t].type # "Endpoint")
              => QueueCount(t) = 0

\* A sender waits on one endpoint, a receiver on the other, and a thread without
\* a handler has faulted.
C1_Witness ==
    /\ \E t \in TCBS : t \in Members(epq["E1"]) /\ state[t] = "Sending"
    /\ \E t \in TCBS : t \in Members(epq["E2"]) /\ state[t] = "Receiving"
    /\ \E t \in TCBS : state[t] = "Fault" /\ fault_handler_ep_f[t].type # "Endpoint"

C3_Fifo ==
    [][\A e \in EPS :
          /\ \A i, j \in DOMAIN epq[e] :
                (i < j /\ epq[e][j] \notin Members(epq'[e]))
                    => epq[e][i] \notin Members(epq'[e])
          /\ \A i, j \in DOMAIN epq[e] :
                (i < j /\ epq[e][i] \in Members(epq'[e]) /\ epq[e][j] \in Members(epq'[e]))
                    => IndexIn(epq'[e], epq[e][i]) < IndexIn(epq'[e], epq[e][j])
          /\ \A t \in Members(epq'[e]) \ Members(epq[e]) :
                \A u \in Members(epq[e]) \cap Members(epq'[e]) :
                    IndexIn(epq'[e], u) < IndexIn(epq'[e], t)
      ]_vars

\* A sent first and B second on E1, both blocked; C's first Recv got A's message
\* (badge 5) and woke A, while B still waits.
C3_Witness ==
    /\ steps = 3
    /\ epq["E1"] = <<"B">>
    /\ state["B"] = "Sending"
    /\ "A" \in Members(readyQ)
    /\ tf["A"].info = RespInfo("Ok")
    /\ current = "C"
    /\ tf["C"].badge = 5

\* The message m names a capability that does not resolve in s's CSpace.
Unresolvable(m, s) == m.info.ncaps > 0 /\ srcslot[s] = NullCap

\* C4: a Send (whose capabilities resolve) on an endpoint whose queue holds receivers
\* dequeues the head receiver R, makes it Ready at the tail of the ready queue and
\* leaves the sender running; R's registers hold the label, length and message
\* registers sent and the badge of the capability sent through, 0 when unbadged.
\* The TCB's sending badge reads as absent exactly when the stored badge is 0.
C4_SendStep ==
    \A e \in EPS, m \in Msgs :
        ( /\ current \in TCBS
          /\ EpState(e) = "Receiving"
          /\ ~Unresolvable(m, current)
          /\ SendInvoke("Send", e, CapBadge(current), m) )
        => LET r == Head(epq[e]) IN
           /\ epq'[e] = Tail(epq[e])
           /\ state'[r] = "Ready"
           /\ readyQ' = Append(readyQ, r)
           /\ current' = current
           /\ state'[current] = "Ready"
           /\ tf'[r].info = m.info
           /\ \A i \in 1..m.info.length : tf'[r].mr[i] = m.mr[i]
           /\ \A i \in DOMAIN tf[r].mr : i > m.info.length => tf'[r].mr[i] = tf[r].mr[i]
           /\ tf'[r].badge = CapBadge(current)

C4_BadgeAbsentIffZero ==
    \A t \in TCBS :
        /\ sending_badge(sending_badge_f[t]) = None <=> sending_badge_f[t] = 0
        /\ sending_badge_f[t] # 0 => sending_badge(sending_badge_f[t]) = Some(sending_badge_f[t])

C4_SendDelivers == [][C4_SendStep]_vars /\ []C4_BadgeAbsentIffZero

\* B waited in Recv on E1; A's Send of (label 7, MR1 = 42) through its badged
\* capability woke it: B is Ready with that message and badge 5, A keeps running.
C4_Witness ==
    /\ current = "A"
    /\ tf["A"].info = RespInfo("Ok")
    /\ "B" \in Members(readyQ)
    /\ tf["B"].info = MsgInfo(7, 1, 0)
    /\ tf["B"].mr = <<42>>
    /\ tf["B"].badge = 5
    /\ epq["E1"] = <<>>
    /\ steps = 2

\* The thread is blocked: not activated and not on the ready queue.
Blocked(t) == state[t] # "Ready" /\ t # current /\ t \notin Members(readyQ)

\* C5 (a): when a Call from C is received by R, either by C calling while R waits
\* or by R's Recv taking the queued caller, R's reply slot holds a Reply capability
\* whose waiting TCB is C, and C is blocked.
C5_CallReceived ==
    /\ \A e \in EPS, m \in Msgs :
          ( /\ current \in TCBS
            /\ EpState(e) = "Receiving"
            /\ ~Unresolvable(m, current)
            /\ SendInvoke("Call", e, CapBadge(current), m) )
          => LET r == Head(epq[e]) IN
             /\ reply_cap_f'[r] = ReplyCapMint(current)
             /\ state'[current] # "Ready"
             /\ current' # current
             /\ current \notin Members(readyQ')
    /\ \A e \in EPS :
          ( /\ current \in TCBS
            /\ EpState(e) = "Sending"
            /\ call[Head(epq[e])]
            /\ ~fault[Head(epq[e])].some
            /\ ~Unresolvable(MsgOf(Head(epq[e])), Head(epq[e]))
            /\ RecvInvoke(e) )
          => LET s == Head(epq[e]) IN
             /\ reply_cap_f'[current] = ReplyCapMint(s)
             /\ state'[s] # "Ready"
             /\ s \notin Members(readyQ')
             /\ s # current'

\* C5 (b): a Reply by R (whose capabilities resolve) through the Reply capability
\* for C makes C Ready on the ready queue with the reply message and empties R's
\* reply slot.
C5_ReplyWakes ==
    \A m \in ReplyMsgs :
        ( /\ current \in TCBS
          /\ reply_cap_f[current].type = "Reply"
          /\ ~Unresolvable(m, current)
          /\ ReplyInvoke(m) )
        => LET w == reply_cap_f[current].tcb IN
           /\ state'[w] = "Ready"
           /\ readyQ' = Append(readyQ, w)
           /\ tf'[w].info = m.info
           /\ \A i \in 1..m.info.length : tf'[w].mr[i] = m.mr[i]
           /\ reply_cap_f'[current] = NullCap

\* C5 (c): a Reply by a thread whose reply slot is Null wakes nobody.
C5_SecondReply ==
    \A m \in ReplyMsgs :
        (current \in TCBS /\ reply_cap_f[current] = NullCap /\ ReplyInvoke(m))
        => /\ state' = state
           /\ readyQ' = readyQ
           /\ reply_cap_f' = reply_cap_f
           /\ \A t \in TCBS \ {current} : tf'[t] = tf[t]

\* C5 (d): the waiting TCB of every Reply capability is blocked, and no two reply
\* slots name the same TCB.
C5_ReplyCapInv ==
    \A r \in TCBS :
        reply_cap_f[r].type = "Reply"
            => /\ Blocked(reply_cap_f[r].tcb)
               /\ ~OnEndpoint(reply_cap_f[r].tcb)

\* C5: Call/Reply is single-use.
C5_CallReplySingleUse ==
    /\ [][C5_CallReceived /\ C5_ReplyWakes /\ C5_SecondReply]_vars
    /\ []C5_ReplyCapInv

\* A called B; B replied with MR1 = 200 and then replied once more: A is Ready with
\* the reply, B's reply slot is Null and B's second Reply returned InvalidCapability.
C5_Witness ==
    /\ state["A"] = "Ready"
    /\ "A" \in Members(readyQ)
    /\ tf["A"].info = MsgInfo(2, 1, 0)
    /\ tf["A"].mr = <<200>>
    /\ reply_cap_f["B"] = NullCap
    /\ tf["B"].badge = 5
    /\ current = "B"
    /\ tf["B"].info = RespInfo("InvalidCapability")

\* C6: an operation that returns an error leaves the state unchanged; configure is
\* all-or-nothing: when it returns an error, the TCB's vspace, cspace and
\* fault-handler slots and the mapped vaddr/ASID of the passed VSpace capability
\* are as they were before the call.
C6_ConfigureStep ==
    \A t \in TCBS, cs \in CSpaceArgs, vs \in VSpaceArgs, fh \in HandlerArgs :
        (Configure(t, cs, vs, fh) /\ last'.ret # "Ok")
            => /\ vspace' = vspace
               /\ cspace' = cspace
               /\ fault_handler_ep_f' = fault_handler_ep_f
               /\ vtcap' = vtcap

C6_ConfigureAllOrNothing == [][C6_ConfigureStep]_vars

\* The state the failing call leaves: configure returned an error, yet the vspace
\* slot of A is populated and V1 is marked mapped while A's fault handler is not set.
C6_PartialConfigure ==
    /\ last = [op |-> "configure", ret |-> "Err"]
    /\ vspace["A"] = VTableCapMint(pgd["V1"])
    /\ vtcap["V1"].asid = Some(PgdPage("V1"))
    /\ vtcap["V2"] = Unmapped
    /\ cspace["A"] # NullCap
    /\ fault_handler_ep_f["A"] = NullCap

\* The registers, state, queues and capability slots of thread t are unchanged.
SameThread(t) ==
    /\ state'[t] = state[t]
    /\ tf'[t].mr = tf[t].mr
    /\ tf'[t].badge = tf[t].badge
    /\ rcvslot'[t] = rcvslot[t]
    /\ srcslot'[t] = srcslot[t]
    /\ reply_cap_f'[t] = reply_cap_f[t]
    /\ sending_badge_f'[t] = sending_badge_f[t]

SameQueues == readyQ' = readyQ /\ epq' = epq /\ current' = current

\* C7: when a capability named in the message does not resolve during a transfer,
\* the invoker gets InvalidCapability and thread state, queue membership, message
\* registers and capability slots of sender and receiver stay as they were (the
\* sender's registers being those it loaded before the trap).
C7_FailedTransferStep ==
    /\ \A kind \in {"Send", "NBSend", "Call"}, e \in EPS, m \in Msgs :
          ( /\ current \in TCBS
            /\ EpState(e) = "Receiving"
            /\ Unresolvable(m, current)
            /\ SendInvoke(kind, e, CapBadge(current), m) )
          => /\ tf'[current] = SetResp(LoadMsg(tf[current], m), "InvalidCapability")
             /\ SameQueues
             /\ \A t \in TCBS : state'[t] = state[t]
             /\ \A t \in TCBS \ {current} : tf'[t] = tf[t]
             /\ \A t \in TCBS : rcvslot'[t] = rcvslot[t] /\ srcslot'[t] = srcslot[t]
             /\ reply_cap_f' = reply_cap_f
    /\ \A e \in EPS :
          ( /\ current \in TCBS
            /\ EpState(e) = "Sending"
            /\ Unresolvable(MsgOf(Head(epq[e])), Head(epq[e]))
            /\ RecvInvoke(e) )
          => /\ tf'[current].info = RespInfo("InvalidCapability")
             /\ SameQueues
             /\ \A t \in TCBS : SameThread(t)
             /\ tf'[Head(epq[e])] = tf[Head(epq[e])]
    /\ \A m \in ReplyMsgs :
          ( /\ current \in TCBS
            /\ reply_cap_f[current].type = "Reply"
            /\ Unresolvable(m, current)
            /\ ReplyInvoke(m) )
          => /\ tf'[current] = SetResp(LoadMsg(tf[current], m), "InvalidCapability")
             /\ SameQueues
             /\ \A t \in TCBS : state'[t] = state[t]
             /\ \A t \in TCBS \ {current} : tf'[t] = tf[t]
             /\ \A t \in TCBS : rcvslot'[t] = rcvslot[t]
             /\ reply_cap_f' = reply_cap_f

C7_FailedTransfer == [][C7_FailedTransferStep]_vars

\* C waits in Recv on E1; B (whose source slot is Null) sent a message naming a
\* capability: B got InvalidCapability and C still waits with untouched registers.
C7_Witness ==
    /\ current = "B"
    /\ tf["B"].info = RespInfo("InvalidCapability")
    /\ reply_cap_f["B"] = NullCap
    /\ epq["E1"] = <<"C">>
    /\ state["C"] = "Receiving"
    /\ tf["C"] = InitTf
    /\ steps = 2

\* C8: NBSend on an endpoint with no waiting receiver returns WouldBlock without
\* enqueuing: the caller stays Ready and activated and every queue is unchanged.
C8_NBSendStep ==
    \A e \in EPS, m \in Msgs :
        ( /\ current \in TCBS
          /\ (epq[e] = <<>> \/ state[Head(epq[e])] # "Receiving")
          /\ SendInvoke("NBSend", e, CapBadge(current), m) )
        => /\ tf'[current].info = RespInfo("WouldBlock")
           /\ state'[current] = "Ready"
           /\ current' = current
           /\ epq' = epq
           /\ readyQ' = readyQ

C8_NBSendWouldBlock == [][C8_NBSendStep]_vars

\* An NBSend found a sender already queued on E1 and returned WouldBlock.
C8_Witness ==
    /\ tf[current].info = RespInfo("WouldBlock")
    /\ state[current] = "Ready"
    /\ Len(epq["E1"]) = 1
    /\ state[Head(epq["E1"])] = "Sending"
    /\ steps = 2

\* The elapsed count of a timer step, and whether the step switches threads.
Elapsed == clock' - clock
Expired == Elapsed >= time_slice[current]

\* C9 as stated: at slice expiry the running thread goes to the tail of the ready
\* queue with a full quantum and the head is activated; A and B strictly alternate;
\* each turn lasts Q ticks.
C9_ExactStep ==
    Tick =>
        /\ Expired =>
              /\ current' = Head(readyQ)
              /\ current' # current
              /\ readyQ' = Append(Tail(readyQ), current)
              /\ time_slice'[current] = Quantum
              /\ ran + Elapsed = Quantum
        /\ ~Expired => current' = current /\ readyQ' = readyQ

C9_ExactQuantum == [][C9_ExactStep]_vars

\* C9 (amended): the same, except that a turn consumes exactly one quantum of time
\* slice: it lasts at least Q ticks and fewer than Q plus the largest elapsed count,
\* and exactly Q ticks when the last timer interrupt does not overshoot the slice.
C9_TurnStep ==
    Tick =>
        /\ Expired =>
              /\ current' = Head(readyQ)
              /\ current' # current
              /\ {current, current'} = {"A", "B"}
              /\ readyQ' = Append(Tail(readyQ), current)
              /\ time_slice'[current] = Quantum
              /\ ran + time_slice[current] = Quantum
              /\ ran + Elapsed >= Quantum
              /\ ran + Elapsed < Quantum + MaxElapsed
              /\ (Elapsed = time_slice[current]) => ran + Elapsed = Quantum
        /\ ~Expired =>
              /\ current' = current
              /\ readyQ' = readyQ
              /\ time_slice'[current] = time_slice[current] - Elapsed

\* The waiting thread always holds a full quantum and the running one a part of it.
C9_Slices ==
    /\ current \in {"A", "B"}
    /\ readyQ = IF current = "A" THEN <<"B">> ELSE <<"A">>
    /\ time_slice[current] \in 1..Quantum
    /\ time_slice[Head(readyQ)] = Quantum
    /\ ran = Quantum - time_slice[current]

C9_RoundRobin == [][C9_TurnStep]_vars /\ []C9_Slices

\* A ran Q ticks, B ran Q ticks, and A is running its second turn, one tick in.
C9_Witness ==
    /\ clock = 2 * Quantum + 1
    /\ current = "A"
    /\ readyQ = <<"B">>
    /\ ran = 1
    /\ time_slice["A"] = Quantum - 1
    /\ time_slice["B"] = Quantum

\* C10: timeslice_sub(n) leaves c - n when n <= c and 0 when n > c, never a wrapped
\* value, and changes no other field of any TCB.
C10_SubStep ==
    \A t \in TCBS, n \in 0..(UsizeMod - 1) :
        TimesliceSub(t, n) =>
            /\ time_slice'[t] = IF n <= time_slice[t] THEN time_slice[t] - n ELSE 0
            /\ time_slice'[t] <= time_slice[t]
            /\ \A u \in TCBS \ {t} : time_slice'[u] = time_slice[u]
            /\ UNCHANGED <<state, sending_badge_f, reply_cap_f, fault, tf, tcbvars>>

C10_SaturatingSub == [][C10_SubStep]_vars

\* timeslice_sub was called on A with more elapsed ticks than A had left.
C10_Witness ==
    /\ last.op = "timeslice_sub"
    /\ last.tcb = "A"
    /\ last.cur > 0
    /\ last.n > last.cur
    /\ time_slice["A"] = 0

\* The threads that are Ready in the state map st.
ReadySet(st) == {t \in TCBS : st[t] = "Ready"}

\* C11 (states): the activated thread is Ready, every queued thread of the ready queue
\* is Ready, the idle thread runs only while the ready queue is empty, and a thread
\* that is Sending, Receiving or in Fault is not the activated one.
C11_OnlyReadyRuns ==
    /\ current \in TCBS => state[current] = "Ready"
    /\ current = idle => readyQ = <<>> /\ ReadySet(state) = {}
    /\ \A t \in Members(readyQ) : state[t] = "Ready"
    /\ \A t \in TCBS : state[t] \in {"Sending", "Receiving", "Fault"} => t # current

\* C11 (steps): whenever another thread is activated it is a Ready thread taken from
\* the head of the ready queue (the thread woken by this very step when the queue
\* was empty before); the idle thread is activated exactly when no thread is left
\* to run; a timer tick changes no thread's state.
C11_ScheduleStep ==
    /\ (current' # current /\ current' \in TCBS) =>
          /\ state'[current'] = "Ready"
          /\ current' \notin Members(readyQ')
          /\ IF readyQ # <<>> THEN current' = Head(readyQ)
             ELSE state[current'] # "Ready"
    /\ (current' # current /\ current' = idle) =>
          /\ readyQ = <<>>
          /\ readyQ' = <<>>
          /\ ReadySet(state') = {}
    /\ (current' = current /\ current \in TCBS /\ state'[current] # "Ready") => FALSE
    /\ Preempt => state' = state

\* C11: schedule() activates only Ready threads, from the head of the ready queue,
\* and the idle thread exactly when the ready queue is empty; blocked threads are
\* never activated and timer ticks leave their state alone.
C11_Schedule == [][C11_ScheduleStep]_vars /\ []C11_OnlyReadyRuns

\* All three threads blocked one after the other (B on a Send, the others otherwise);
\* the idle thread was activated and a timer tick found nothing to run.
C11_Witness ==
    /\ current = idle
    /\ readyQ = <<>>
    /\ state["A"] = "Fault"
    /\ state["B"] = "Sending"
    /\ state["C"] = "Receiving"
    /\ steps = 4

\* C12 (fault raised): when a thread T whose fault-handler slot holds an Endpoint
\* capability faults, its fault value is recorded and T stops running. With a
\* receiver waiting on the handler endpoint, T is in Fault and the receiver wakes
\* with the fault kind as label, the faulting PC in MR1, the badge of T's handler
\* capability and a Reply capability for T; otherwise the synthesized Send waits
\* at the tail of the handler endpoint's queue carrying that badge.
C12_FaultRaised ==
    \A fl \in Faults :
        ( /\ current \in TCBS
          /\ fault_handler_ep_f[current].type = "Endpoint"
          /\ FaultRaise(fl) )
        => LET T == current
               h == fault_handler_ep_f[T]
           IN
           /\ fault'[T] = Some(fl)
           /\ state'[T] # "Ready"
           /\ current' # T
           /\ T \notin Members(readyQ')
           /\ IF epq[h.obj] # <<>> /\ state[Head(epq[h.obj])] = "Receiving" THEN
                 LET r == Head(epq[h.obj]) IN
                 /\ state'[T] = "Fault"
                 /\ \A x \in EPS : T \notin Members(epq'[x])
                 /\ state'[r] = "Ready"
                 /\ tf'[r].info = MsgInfo(fl.kind, 1, 0)
                 /\ tf'[r].mr[1] = fl.pc
                 /\ tf'[r].badge = h.badge
                 /\ reply_cap_f'[r] = ReplyCapMint(T)
              ELSE
                 /\ epq'[h.obj] = Append(epq[h.obj], T)
                 /\ sending_badge_f'[T] = h.badge

\* C12 (fault received): a Recv that takes a queued faulted thread T off the handler
\* endpoint gets the same message and badge, and leaves T in Fault holding no queue.
C12_FaultReceived ==
    \A e \in EPS :
        ( /\ current \in TCBS
          /\ epq[e] # <<>>
          /\ fault[Head(epq[e])].some
          /\ RecvInvoke(e) )
        => LET T == Head(epq[e])
               fl == fault[T].v
           IN
           /\ fault_handler_ep_f[T] = EndpointCapMint(e, tf'[current].badge)
           /\ tf'[current].info = MsgInfo(fl.kind, 1, 0)
           /\ tf'[current].mr[1] = fl.pc
           /\ reply_cap_f'[current] = ReplyCapMint(T)
           /\ state'[T] = "Fault"
           /\ \A x \in EPS : T \notin Members(epq'[x])
           /\ T \notin Members(readyQ')

\* C12 (resumption): a faulted thread becomes Ready only by a Reply of the thread
\* that holds the Reply capability for it, and the Reply clears the recorded fault.
C12_ReadyOnlyByReply ==
    \A t \in TCBS :
        (fault[t].some /\ state'[t] = "Ready")
        => /\ current \in TCBS
           /\ reply_cap_f[current] = ReplyCapMint(t)
           /\ \E m \in ReplyMsgs : ReplyInvoke(m)
           /\ fault'[t] = None
           /\ t \in Members(readyQ')

\* A thread with a recorded fault is not Ready and not activated.
C12_FaultedNotReady ==
    \A t \in TCBS : fault[t].some => state[t] # "Ready" /\ t # current

FaultedNoHandler(t) ==
    /\ t \notin dead
    /\ state[t] = "Fault"
    /\ fault_handler_ep_f[t].type # "Endpoint"

\* C13 (states): a live thread in Fault without a handler is on no queue and is not
\* the activated thread; neither is a deleted thread.
C13_OffQueues ==
    \A t \in TCBS :
        (FaultedNoHandler(t) \/ t \in dead) => QueueCount(t) = 0 /\ t # current

\* C13 (steps): a thread that faults with no handler endpoint enters Fault with the
\* fault recorded; from then on every step leaves it in Fault with that fault
\* value, except an external resume of that thread or its deletion.
C13_FaultStep ==
    /\ \A fl \in Faults :
          ( /\ current \in TCBS
            /\ fault_handler_ep_f[current].type # "Endpoint"
            /\ FaultRaise(fl) )
          => /\ state'[current] = "Fault"
             /\ fault'[current] = Some(fl)
             /\ current' # current
             /\ \A e \in EPS : current \notin Members(epq'[e])
             /\ current \notin Members(readyQ')
    /\ \A t \in TCBS :
          FaultedNoHandler(t)
          => \/ /\ state'[t] = "Fault"
                /\ fault'[t] = fault[t]
                /\ t \notin dead'
             \/ Resume(t)
             \/ DeleteTcb(t)

\* C13: a fault without a handler leaves the thread in Fault indefinitely.
C13_FaultStays == [][C13_FaultStep]_vars /\ []C13_OffQueues

\* C faulted with no handler installed; four kernel entries later it is still in
\* Fault with the fault recorded, while the other threads ran.
C13_Witness ==
    /\ state["C"] = "Fault"
    /\ fault["C"] = Some([kind |-> 3, pc |-> 9])
    /\ "C" \notin dead
    /\ steps = 5
    /\ current = "B"
    /\ state["A"] = "Receiving"

\* Threads of q that remain in q2 keep their relative order.
SameOrder(q, q2) ==
    \A i, j \in DOMAIN q :
        (i < j /\ q[i] \in Members(q2) /\ q[j] \in Members(q2))
            => IndexIn(q2, q[i]) < IndexIn(q2, q[j])

\* C14 (last capability): deleting the last capability to an endpoint empties its
\* queue; every thread that waited there is Ready on the ready queue, behind the
\* threads already there and in its queue order, with Cancelled as syscall result;
\* no other thread is touched.
C14_LastCap ==
    \A e \in EPS :
        ( /\ current \in TCBS
          /\ epcaps[e] > 0
          /\ EpRefs(epcaps, e) = 1
          /\ DeleteEpCap(e) )
        => /\ epq'[e] = <<>>
           /\ \A t \in Members(epq[e]) :
                 /\ state'[t] = "Ready"
                 /\ t \in Members(readyQ')
                 /\ \A x \in EPS : t \notin Members(epq'[x])
                 /\ tf'[t].info = RespInfo("Cancelled")
           /\ readyQ' = readyQ \o epq[e]
           /\ \A t \in TCBS \ Members(epq[e]) : state'[t] = state[t] /\ tf'[t] = tf[t]
           /\ \A x \in EPS \ {e} : epq'[x] = epq[x]

\* C14 (other capabilities remain): deleting a capability to an endpoint that is
\* still reachable wakes nobody.
C14_OtherCaps ==
    \A e \in EPS :
        ( /\ current \in TCBS
          /\ epcaps[e] > 0
          /\ EpRefs(epcaps, e) > 1
          /\ DeleteEpCap(e) )
        => /\ state' = state
           /\ epq' = epq
           /\ readyQ' = readyQ
           /\ tf' = tf
           /\ current' = current

\* C14 (TCB deletion): deleting a thread blocked on an endpoint removes it from that
\* endpoint's queue and leaves the other waiters in place and in order.
C14_DeleteBlocked ==
    \A t \in TCBS :
        ( /\ current \in TCBS
          /\ t # current
          /\ t \notin dead
          /\ OnEndpoint(t)
          /\ DeleteTcb(t) )
        => \A e \in EPS :
              /\ Members(epq'[e]) = Members(epq[e]) \ {t}
              /\ Len(epq'[e]) = Cardinality(Members(epq[e]) \ {t})
              /\ SameOrder(epq[e], epq'[e])

\* No queue holds a deleted thread, endpoint queues hold only blocked threads of one
\* kind, and an endpoint nobody can reach has no waiters.
C14_QueuesLive ==
    /\ current \notin dead
    /\ Members(readyQ) \cap dead = {}
    /\ \A e \in EPS :
          /\ Members(epq[e]) \cap dead = {}
          /\ \/ \A t \in Members(epq[e]) : state[t] = "Sending"
             \/ \A t \in Members(epq[e]) : state[t] = "Receiving"
          /\ EpRefs(epcaps, e) = 0 => epq[e] = <<>>

\* C14: cancellation by deletion of the endpoint's last capability or of the blocked TCB.
C14_Cancellation ==
    /\ [][C14_LastCap /\ C14_OtherCaps /\ C14_DeleteBlocked]_vars
    /\ []C14_QueuesLive

\* A and C both blocked sending on E1, A first; B then deleted both capabilities to
\* E1: A and C are Ready behind one another with Cancelled as their result.
C14_Witness ==
    /\ epcaps["E1"] = 0
    /\ epq["E1"] = <<>>
    /\ current = "B"
    /\ readyQ = <<"A", "C">>
    /\ state["A"] = "Ready"
    /\ state["C"] = "Ready"
    /\ tf["A"].info = RespInfo("Cancelled")
    /\ tf["C"].info = RespInfo("Cancelled")
    /\ dead = {}

\* The slots below slot x in parent map par: children, their children, and so on.
RECURSIVE Grow(_, _, _, _)
Grow(par, x, S, n) ==
    IF n = 0 THEN S
    ELSE Grow(par, x, S \cup {s \in CSlots : par[s] = x \/ par[s] \in S}, n - 1)
Below(par, x) == Grow(par, x, {}, NumSlots)

\* C15 (revoke): Revoke(X) empties every slot below X, keeps X and its place in the
\* tree, leaves nothing below X and touches no other slot.
C15_RevokeStep ==
    \A x \in CSlots :
        (cnode[x] # NullCap /\ last'.op = "revoke" /\ RevokeSlot(x))
        => /\ cnode'[x] = cnode[x]
           /\ cparent'[x] = cparent[x]
           /\ Below(cparent', x) = {}
           /\ \A d \in Below(cparent, x) : cnode'[d] = NullCap /\ cparent'[d] = 0
           /\ \A s \in CSlots \ Below(cparent, x) :
                 cnode'[s] = cnode[s] /\ cparent'[s] = cparent[s]

\* C15 (tree): a Null slot is in no tree; every non-Null slot has either no parent
\* (a root) or one non-Null parent naming the same object or the Untyped it came
\* from, lies on no cycle, and reaches exactly one root.
C15_Tree ==
    \A s \in CSlots :
        /\ cnode[s] = NullCap => cparent[s] = 0 /\ Below(cparent, s) = {}
        /\ cnode[s] # NullCap =>
              /\ s \notin Below(cparent, s)
              /\ Cardinality({a \in {s} \cup Ancestors(cparent, s, NumSlots) :
                                 cparent[a] = 0}) = 1
              /\ cparent[s] # 0 =>
                    /\ cnode[cparent[s]] # NullCap
                    /\ \/ cnode[cparent[s]] = cnode[s]
                       \/ cnode[cparent[s]].type = "Untyped"

\* C15: revoke deletes exactly the proper descendants and the derivation forest
\* stays well formed.
C15_Revoke == [][C15_RevokeStep]_vars /\ []C15_Tree

\* Slot 2 holds a TCB capability retyped from the Untyped; Revoke(2) deleted the one
\* capability derived from it, and slot 2 is still a child of the Untyped.
C15_Witness ==
    /\ last = [op |-> "revoke", ret |-> "Ok", n |-> 1]
    /\ cnode[2].type = "Tcb"
    /\ cparent[2] = 1
    /\ cnode[3] = NullCap
    /\ cnode[1].type = "Untyped"

\* The watermark a successful retype of count objects of 2^sb bytes must at least reach.
Needed(ut, sb, count) ==
    (((ut.free + Pow2(sb) - 1) \div Pow2(sb)) * Pow2(sb)) + count * Pow2(sb)

\* C16 (steps): no step lowers an Untyped's watermark; a retype succeeds exactly when
\* the request is valid, fits and finds Null destination slots, and then advances
\* the watermark by at least count * 2^sb and fills the slots with children of the
\* Untyped at ascending addresses below the new watermark; a failed retype returns
\* NotEnoughMemory, SlotNotEmpty or InvalidArgument and changes neither watermark
\* nor slots; revoke leaves every Untyped as it was.
C16_WatermarkStep ==
    /\ \A s \in CSlots :
          (cnode[s].type = "Untyped" /\ cnode'[s].type = "Untyped")
              => cnode'[s].free >= cnode[s].free
    /\ last'.op = "retype" =>
          \A u \in UntypedSlots, sb \in TCB_OBJ_BIT_SZ..MaxSizeBits, count \in 1..MaxCount,
             dst \in CSlots :
             LET valid == /\ \A i \in 0..(count - 1) :
                                dst + i \in CSlots /\ cnode[dst + i] = NullCap
                          /\ Needed(cnode[u], sb, count) <= Pow2(cnode[u].bits)
             IN
             ((valid \/ last'.ret = "Ok") /\ Retype(u, sb, count, dst)) =>
                /\ valid
                /\ last'.ret = "Ok"
                /\ cnode'[u].free >= cnode[u].free + count * Pow2(sb)
                /\ cnode'[u].free = Needed(cnode[u], sb, count)
                /\ \A i \in 0..(count - 1) :
                      /\ cnode'[dst + i].type = "Tcb"
                      /\ cparent'[dst + i] = u
                      /\ cnode'[dst + i].paddr >= cnode[u].paddr + cnode[u].free
                      /\ cnode'[dst + i].paddr + Pow2(sb) <= cnode'[u].paddr + cnode'[u].free
                      /\ i > 0 => cnode'[dst + i].paddr = cnode'[dst + i - 1].paddr + Pow2(sb)
    /\ (last'.op = "retype" /\ last'.ret = "Ok") =>
          \A u \in UntypedSlots, sb \in 0..(TCB_OBJ_BIT_SZ - 1), count \in 1..MaxCount,
             dst \in CSlots : ~Retype(u, sb, count, dst)
    /\ (last'.op = "retype" /\ last'.ret # "Ok") =>
          /\ last'.ret \in {"NotEnoughMemory", "SlotNotEmpty", "InvalidArgument"}
          /\ cnode' = cnode
          /\ cparent' = cparent
    /\ \A x \in CSlots :
          (last'.op = "revoke" /\ RevokeSlot(x)) =>
             \A s \in CSlots : cnode[s].type = "Untyped" => cnode'[s] = cnode[s]

\* C16 (states): the watermark never exceeds the size of the Untyped.
C16_WithinSize ==
    \A s \in CSlots : cnode[s].type = "Untyped" => cnode[s].free <= Pow2(cnode[s].bits)

\* C16: the watermark only advances and stays within the Untyped.
C16_Watermark == [][C16_WatermarkStep]_vars /\ []C16_WithinSize

\* Two objects were retyped (the second one aligned up, which used the Untyped up)
\* and Revoke of the Untyped emptied both slots: the watermark is still at the end.
C16_Witness ==
    /\ last = [op |-> "revoke", ret |-> "Ok", n |-> 2]
    /\ cnode[1] = UntypedCapMint(0, UtBits, Pow2(UtBits))
    /\ cnode[2] = NullCap
    /\ cnode[3] = NullCap

\* The levels on the walk to page va without a table, from the tables alone.
Absent(tb, va) == {l \in 1..PtLevels : <<l, va \div Pow2(PtLevels + 1 - l)>> \notin tb}

\* C17 (steps): a map_frame on a walk with a table missing returns VSpaceTableMiss
\* naming a missing level with every level above it present, and changes neither
\* tables nor mappings; with no table missing it maps the frame. The map_table the
\* loader answers with succeeds, installs exactly the table of the named level, costs
\* one slot of the child's CNode and leaves the walk complete down to that level, so
\* the levels still missing shrink by one per map_table.
C17_LoopStep ==
    /\ LoaderMapFrame =>
          IF Absent(tables, lva) # {} THEN
              /\ last'.ret = "VSpaceTableMiss"
              /\ last'.level \in Absent(tables, lva)
              /\ \A k \in 1..(last'.level - 1) : k \notin Absent(tables, lva)
              /\ tables' = tables
              /\ mapped' = mapped
              /\ lpc' = "map_table"
          ELSE
              /\ last'.ret = "Ok"
              /\ mapped' = mapped \cup {lva}
              /\ lpc' = "copy"
    /\ LoaderMapTable =>
          /\ last'.ret = "Ok"
          /\ last.level \in Absent(tables, lva)
          /\ Absent(tables', lva) = Absent(tables, lva) \ {last.level}
          /\ \A k \in 1..last.level : k \notin Absent(tables', lva)
          /\ Cardinality(tables') = Cardinality(tables) + 1
          /\ cur_free' = cur_free + 1
          /\ lpc' = "map_frame"

\* C17 (states): the loader never panics; every slot it used in the child's CNode
\* holds one installed table or one mapped frame, so no table was installed twice;
\* every table lies on the walk of a page that is mapped or being mapped.
C17_LoopInv ==
    /\ lpc # "panic"
    /\ cur_free + (IF lpc = "copy" THEN 1 ELSE 0)
          = Cardinality(tables) + Cardinality(mapped)
    /\ \A k \in tables :
          \E va \in mapped \cup (IF lpc = "idle" THEN {} ELSE {lva}) :
              k = <<k[1], va \div Pow2(PtLevels + 1 - k[1])>>
    /\ Cardinality(tables) <= PtLevels * (Cardinality(mapped) + 1)

\* C17 (termination): the retry loop entered for a page ends with the page mapped.
C17_Terminates ==
    \A va \in Pages : (lpc = "map_frame" /\ lva = va) ~> (lpc = "copy" /\ va \in mapped)

Bit(a, i) == (a \div Pow2(i)) % 2
RECURSIVE BitsOf(_, _, _)
BitsOf(a, lo, hi) == IF hi < lo THEN 0 ELSE Bit(a, lo) + 2 * BitsOf(a, lo + 1, hi)

\* C18: ASID 0 is reserved: whenever a thread with a VSpace root installed is
\* switched to, the ASID installed and used for the TLB invalidation is not 0.
C18_AsidZeroReserved ==
    (last.op = "activate" /\ VspaceSlot(last.tcb).type = "VTable")
        => /\ cpu.asid # 0
           /\ cpu.tlbi # Some(0)

\* A's VSpace root is the page global directory at the first address above the ASID
\* field (0x1000_0000 on the machine); A was activated and runs under ASID 0.
C18_AsidZero ==
    /\ last.op = "activate"
    /\ last.tcb = "A"
    /\ last.ret = "Ok"
    /\ vspace["A"] = VTableCapMint(Pow2(PageBits + AsidBits))
    /\ cpu.asid = 0
    /\ cpu.tlbi = Some(0)

\* C19 (steps): the ASID recorded in the VTable capability by install_vspace and by
\* a successful configure is the value asid() returns afterwards.
C19_InstallStep ==
    /\ \A v \in VtCaps :
          install_vspace("A", v) =>
             vtcap'[v].asid = Some(BitsOf(vspace'["A"].paddr, PageBits, PageBits + AsidBits - 1))
    /\ \A v \in VtCaps :
          (Configure("B", None, Some(v), None) /\ last'.ret = "Ok") =>
             vtcap'[v].asid = Some(BitsOf(vspace'["B"].paddr, PageBits, PageBits + AsidBits - 1))

\* C19 (states): asid() is bits 12..28 of the physical address of the VSpace root
\* and nothing else, and activation installs that value and invalidates the TLB by it.
C19_AsidValue ==
    /\ \A t \in TCBS :
          vspace[t].type = "VTable" =>
             asid(t) = Some(BitsOf(vspace[t].paddr, PageBits, PageBits + AsidBits - 1))
    /\ (last.op = "activate" /\ last.ret = "Ok") =>
          /\ Some(cpu.asid) = asid(last.tcb)
          /\ cpu.tlbi = asid(last.tcb)

\* C19: the recorded ASID, the value of asid() and the ASID switch_vspace installs
\* are one 16-bit value, bits 12..28 of the root's physical address.
C19_AsidRecorded == [][C19_InstallStep]_vars /\ []C19_AsidValue

\* configure installed V1, whose page global directory lies above the ASID field, as
\* B's VSpace: the capability records the whole page number, asid() returns its low
\* bits.
C19_Mismatch ==
    /\ last = [op |-> "configure", ret |-> "Ok"]
    /\ vspace["B"] = VTableCapMint(pgd["V1"])
    /\ pgd["V1"] = Pow2(PageBits + AsidBits) + Pow2(PageBits)
    /\ vtcap["V1"].asid = Some(Pow2(AsidBits) + 1)
    /\ asid("B") = Some(1)

\* C20: thread_id() is bits [47:10] of the TCB object's address; TCB objects at
\* distinct aligned addresses within the 48-bit range have distinct thread ids; the
\* value activation writes splits at bit 48 into the cpuid above and the thread id
\* below, the two fields sharing no bit.
C20_ThreadId ==
    /\ \A t \in TCBS \cup {idle} :
          /\ thread_id(kaddr[t]) = BitsOf(kaddr[t], TCB_OBJ_BIT_SZ, VaBits - 1)
          /\ thread_id(kaddr[t]) < Pow2(VaBits - TCB_OBJ_BIT_SZ)
    /\ \A t \in TCBS \cup {idle}, u \in TCBS \cup {idle} :
          (kaddr[t] # kaddr[u] /\ kaddr[t] < Pow2(VaBits) /\ kaddr[u] < Pow2(VaBits))
              => thread_id(kaddr[t]) # thread_id(kaddr[u])
    /\ last.op = "activate" =>
          /\ cpu.tpidrro \div Pow2(VaBits) = last.cpuid
          /\ cpu.tpidrro % Pow2(VaBits) = thread_id(kaddr[last.tcb])
          /\ BitAnd(Shl(last.cpuid, VaBits), thread_id(kaddr[last.tcb])) = 0

\* A's TCB is the lowest and B's the highest TCB-aligned address of the 48-bit range;
\* B was activated on CPU 1 and the register holds the cpuid above B's thread id.
C20_Witness ==
    /\ last.op = "activate"
    /\ last.tcb = "B"
    /\ last.cpuid = 1
    /\ kaddr["A"] = Pow2(TCB_OBJ_BIT_SZ)
    /\ kaddr["B"] = Pow2(VaBits) - Pow2(TCB_OBJ_BIT_SZ)
    /\ thread_id(kaddr["B"]) = Pow2(VaBits - TCB_OBJ_BIT_SZ) - 1
    /\ cpu.tpidrro = Pow2(VaBits) + thread_id(kaddr["B"])

\* C21: activating a TCB whose vspace slot holds no VTable capability leaves the
\* installed root, the ASID and the TLB as they were: switch_vspace returns an error,
\* activate ignores it, still writes the thread id and restores the TrapFrame.
C21_IdleStep ==
    \A t \in TCBS \cup {idle}, c \in Cpus :
        (VspaceSlot(t).type # "VTable" /\ last'.op = "activate" /\ last'.tcb = t
            /\ last'.cpuid = c /\ activate(t, c))
        => /\ last'.ret = "Err"
           /\ cpu'.root = cpu.root
           /\ cpu'.asid = cpu.asid
           /\ cpu'.tlbi = cpu.tlbi
           /\ cpu'.restored = Some(t)
           /\ cpu'.tpidrro = BitOr(Shl(c, VaBits), thread_id(kaddr[t]))

C21_IdleActivation == [][C21_IdleStep]_vars

\* The idle thread was activated after a thread with a VSpace: the root and ASID of
\* that thread are still installed and the idle thread's TrapFrame is restored.
C21_Witness ==
    /\ last.op = "activate"
    /\ last.tcb = idle
    /\ last.ret = "Err"
    /\ cpu.restored = Some(idle)
    /\ cpu.root = Some(Pow2(PageBits))
    /\ cpu.asid = 1
    /\ cpu.tlbi = Some(1)

\* C22 (steps): the n-th fetch yields badge 100 + (n - 1).
C22_FetchStep ==
    \A c \in Callers :
        DeriveFetch(c) => dpc'[c].badge = FirstBadge + Issued

\* C22 (states): every badge returned or in flight is nonzero and at least 100, the
\* capability returned carries the badge returned, no two calls hold the same badge,
\* and the badges handed out so far are exactly 100 .. 100 + n - 1.
C22_BadgesInv ==
    LET held == {got[i].badge : i \in DOMAIN got} \cup {dpc[c].badge : c \in InFlight} IN
    /\ \A i \in DOMAIN got :
          /\ got[i].badge # 0
          /\ got[i].badge >= FirstBadge
          /\ got[i].cap = Some(got[i].badge)
    /\ \A i \in DOMAIN got, j \in DOMAIN got : i # j => got[i].badge # got[j].badge
    /\ \A c \in InFlight, i \in DOMAIN got : dpc[c].badge # got[i].badge
    /\ \A c \in InFlight, d \in InFlight : c # d => dpc[c].badge # dpc[d].badge
    /\ held = FirstBadge..(FirstBadge + Issued - 1)
    /\ cur_badge = FirstBadge + Issued

\* C22: badges are nonzero, start at 100 and are pairwise distinct under every
\* interleaving of the callers.
C22_DistinctBadges == [][C22_FetchStep]_vars /\ []C22_BadgesInv

\* T1 fetched first and T2 second, T2 returned first: the calls overlapped and the
\* badges returned are 101 and 100, a third call is in flight with 102.
C22_Witness ==
    /\ Len(got) = 2
    /\ got[1] = [who |-> "T2", badge |-> FirstBadge + 1, cap |-> Some(FirstBadge + 1)]
    /\ got[2] = [who |-> "T1", badge |-> FirstBadge, cap |-> Some(FirstBadge)]
    /\ dpc["T1"] = [pc |-> "copy", badge |-> FirstBadge + 2]

\* The handler the registrations made so far leave for badge b: that of the latest
\* insert_event(b, ..) unless a remove_event(b) came after it.
RECURSIVE LatestReg(_, _)
LatestReg(h, b) ==
    IF h = <<>> THEN None
    ELSE LET e == h[Len(h)] IN
         IF e.key = b /\ e.op = "insert_event" THEN Some(e.h)
         ELSE IF e.key = b /\ e.op = "remove_event" THEN None
         ELSE LatestReg(SubSeq(h, 1, Len(h) - 1), b)

\* C23: handle_ipc on a message with badge b calls exactly one handler, the one most
\* recently registered with insert_event(b, ..) and not removed since; for a badge
\* without handler and for an unbadged message it calls none; in every case the
\* dispatch leaves both handler tables as they were.
C23_RouteStep ==
    [][(spc = "recv" /\ SrvMessage) =>
         /\ UNCHANGED <<event_handlers, ntf_handler>>
         /\ LET want == IF loc'.badge.some THEN LatestReg(hist, loc'.badge.v) ELSE None IN
            IF want.some
            THEN calls' = <<[h |-> want.v, arg |-> loc'.badge.v]>> /\ spc' = "msg_call"
            ELSE calls' = <<>> /\ spc' = "recv"]_vars
C23_OneHandler ==
    /\ Len(calls) <= 1
    /\ spc = "msg_call" => Len(calls) = 1 /\ loc.badge = Some(calls[1].arg)
    /\ \A b \in EvBadges : event_handlers[b] = LatestReg(hist, b)
C23_BadgeRouting == C23_RouteStep /\ []C23_OneHandler
\* Badge 100 was registered with h1 and then with h2; a message with badge 100 is being
\* handled by h2.
C23_Witness ==
    /\ hist = <<[op |-> "insert_event", key |-> FirstBadge, h |-> "h1"],
                [op |-> "insert_event", key |-> FirstBadge, h |-> "h2"]>>
    /\ spc = "msg_call"
    /\ calls = <<[h |-> "h2", arg |-> FirstBadge]>>

\* The bits set in a notification mask, and the set of elements of a sequence.
SetBits(m) == {n \in NtfBitsSet : Bit(m, n) = 1}
Range(q) == {q[i] : i \in 1..Len(q)}

\* C24: for a Notification with mask m, handle_ipc visits every set bit of m exactly
\* once, in ascending order, calls the handler registered for the bit if there is one,
\* never calls a handler for a clear bit, and terminates for every m, the empty mask
\* and the masks with the highest bit included.
C24_VisitStep ==
    [][(spc = "ntf_test" /\ SrvNtfTest) =>
         IF spc' = "recv"
         THEN /\ Range(visited) = SetBits(loc.m0)
              /\ Len(visited) = Cardinality(SetBits(loc.m0))
              /\ UNCHANGED <<calls, visited>>
         ELSE /\ SetBits(loc.m0) \ Range(visited) # {}
              /\ LET bit == CHOOSE n \in SetBits(loc.m0) \ Range(visited) :
                                \A k \in SetBits(loc.m0) \ Range(visited) : n <= k
                 IN /\ visited' = Append(visited, bit)
                    /\ IF ntf_handler[bit].some
                       THEN /\ calls' = Append(calls, [h |-> ntf_handler[bit].v, arg |-> bit])
                            /\ spc' = "ntf_call"
                       ELSE calls' = calls /\ spc' = "ntf_clear"]_vars
C24_VisitInv ==
    /\ \A i \in 1..Len(visited) : \A j \in 1..Len(visited) :
          i < j => visited[i] < visited[j]
    /\ Range(visited) \subseteq SetBits(loc.m0)
    /\ \A i \in 1..Len(calls) : calls[i].arg \in Range(visited)
    /\ \A i \in 1..Len(calls) : \A j \in 1..Len(calls) : i < j => calls[i].arg < calls[j].arg
    /\ spc = "ntf_test" => SetBits(loc.mask) = SetBits(loc.m0) \ Range(visited)
C24_Terminates == (spc # "recv") ~> (spc = "recv")
C24_NotificationLoop == C24_VisitStep /\ []C24_VisitInv /\ C24_Terminates
\* The mask with bit 0 and the highest bit set has been handled: both bits were visited,
\* lowest first, and only the highest one, which alone has a handler, was called.
C24_Witness ==
    /\ spc = "recv"
    /\ loc.m0 = Pow2(NtfBits - 1) + 1
    /\ visited = <<0, NtfBits - 1>>
    /\ calls = <<[h |-> "h1", arg |-> NtfBits - 1]>>

\* C25 (messages): while a message handler runs the server holds neither mutex.
C25_MessageSafe == spc = "msg_call" => locks.ev = None /\ locks.ntf = None

\* C25: the EpServer holds neither handler-table mutex while a handler callback runs,
\* message handler or notification handler, so that a handler calling insert_event,
\* remove_event or insert_notification on the same EpServer never spins on a mutex
\* its own thread holds.
C25_ReentrantSafe ==
    /\ InCallback => locks.ev = None /\ locks.ntf = None
    /\ spc # "spin"

\* A notification handler called insert_notification on the EpServer that is calling
\* it: the server thread spins on the ntf_handler mutex it locked for the bit.
C25_Deadlock ==
    /\ spc = "spin"
    /\ locks.ntf = Some("srv")
    /\ calls # <<>> /\ calls[Len(calls)].arg = loc.ntf

\* The capabilities a process must hold in its fixed slots before it runs.
Required(c) ==
    {"TcbCap", "RootCNodeCap", "RootVNodeCap", "InitUntyped"}
        \cup (IF c.stdio THEN {"Stdio"} ELSE {})
SetUp(c) ==
    /\ c.configured /\ c.regs
    /\ c.kind = "process" => c.loaded /\ c.untyped /\ Required(c) \subseteq c.copied

\* C26: a spawned thread or process is resumed only after it is fully set up: the TCB
\* configured, the registers set and, for a process, TcbCap, RootCNodeCap,
\* RootVNodeCap, Stdio (if given) and InitUntyped copied into the child's root CNode;
\* when the ELF load, one of those cap_copy calls or the untyped allocation fails,
\* spawn returns Err and the child is never resumed.
C26_ResumeStep ==
    [][(~child.resumed /\ child'.resumed) =>
          /\ SetUp(child)
          /\ child.failed = "none"
          /\ child'.ret = "Ok"]_vars
C26_SpawnInv ==
    /\ child.resumed => SetUp(child) /\ child.ret = "Ok"
    /\ child.ret = "Ok" => child.resumed
    /\ child.failed \in {"load_elf", "cap_copy", "alloc_untyped"} =>
          child.ret = "Err" /\ child.pc = "done" /\ ~child.resumed
    /\ child.failed \in {"alloc_object", "closure", "configure", "set_registers", "resume"} =>
          child.ret = "panic" /\ child.pc = "done" /\ ~child.resumed
    /\ child.kind = "thread" => child.copied = {} /\ ~child.untyped
C26_ResumeLast == C26_ResumeStep /\ []C26_SpawnInv /\ [][child.resumed => child'.resumed]_vars
\* A process with stdio has been resumed after an ELF load that mapped a page.
C26_Witness ==
    /\ child.kind = "process" /\ child.stdio /\ child.resumed
    /\ child.copied = {"TcbCap", "RootCNodeCap", "RootVNodeCap", "Stdio", "InitUntyped"}
    /\ mapped # {}
\* The cap_copy of Stdio failed: spawn returned Err with the child configured but not
\* resumed.
C26_Failed ==
    /\ child.failed = "cap_copy" /\ child.ret = "Err"
    /\ child.copied = {"TcbCap", "RootCNodeCap", "RootVNodeCap"} /\ child.stdio
    /\ child.configured /\ ~child.resumed

====
